---------------------------- MODULE Spec2Model ----------------------------
(***************************************************************************)
(* A model of the NLP-to-MongoDB translation service (src/nlp_service).    *)
(*                                                                         *)
(* Text is modelled character by character: a Python str is a sequence of  *)
(* one-character strings, so that lower(), strip(), split("."), the        *)
(* difflib similarity ratio and the ordering of sorted() are computed, not *)
(* assumed.  Python's None is the string "None" where a str or a dict may  *)
(* stand, and NoLimit where an int may stand.                              *)
(***************************************************************************)
EXTENDS Integers, Sequences, FiniteSets, TLC

(***************************************************************************)
(* Python str operations                                                   *)
(***************************************************************************)

\* Code-point order of the characters the model uses (Python compares str
\* by code point): ' ' < '*' < '-' < '.' < 'A'..'Z' < '_' < 'a'..'z'.
UpperCase ==
    << "A", "B", "C", "D", "E", "F", "G", "H", "I", "J", "K", "L", "M",
       "N", "O", "P", "Q", "R", "S", "T", "U", "V", "W", "X", "Y", "Z" >>

LowerCase ==
    << "a", "b", "c", "d", "e", "f", "g", "h", "i", "j", "k", "l", "m",
       "n", "o", "p", "q", "r", "s", "t", "u", "v", "w", "x", "y", "z" >>

Alphabet == << " ", "*", "-", "." >> \o UpperCase \o << "_" >> \o LowerCase

Ord(c) == CHOOSE i \in 1..Len(Alphabet) : Alphabet[i] = c

\* str.lower() on one character
LowerChar(c) ==
    IF \E i \in 1..Len(UpperCase) : UpperCase[i] = c
    THEN LowerCase[CHOOSE i \in 1..Len(UpperCase) : UpperCase[i] = c]
    ELSE c

\* str.lower()
Lower(s) == [i \in 1..Len(s) |-> LowerChar(s[i])]

\* s[lo:hi] with 1-based inclusive bounds; empty when lo > hi
Slice(s, lo, hi) == IF lo > hi THEN << >> ELSE SubSeq(s, lo, hi)

\* str.strip(): leading and trailing whitespace removed
Strip(s) ==
    LET keep == {i \in 1..Len(s) : s[i] # " "}
    IN  IF keep = {} THEN << >>
        ELSE LET lo == CHOOSE i \in keep : \A j \in keep : i <= j
                 hi == CHOOSE i \in keep : \A j \in keep : i >= j
             IN  SubSeq(s, lo, hi)

\* c in s
HasChar(s, c) == \E i \in 1..Len(s) : s[i] = c

\* s.replace(" ", ".")
SpaceToDot(s) == [i \in 1..Len(s) |-> IF s[i] = " " THEN "." ELSE s[i]]

\* s.rsplit(".", 1)[-1]: the text after the last dot (s itself without one)
LastSegment(s) ==
    LET dots == {i \in 1..Len(s) : s[i] = "."}
    IN  IF dots = {} THEN s
        ELSE LET d == CHOOSE i \in dots : \A j \in dots : i >= j
             IN  Slice(s, d + 1, Len(s))

\* s.split("."): the segments between dots, empty segments kept
RECURSIVE SplitDots(_)
SplitDots(s) ==
    LET dots == {i \in 1..Len(s) : s[i] = "."}
    IN  IF dots = {} THEN << s >>
        ELSE LET d == CHOOSE i \in dots : \A j \in dots : i <= j
             IN  << Slice(s, 1, d - 1) >> \o SplitDots(Slice(s, d + 1, Len(s)))

\* a < b for Python str
RECURSIVE StrLess(_, _)
StrLess(a, b) ==
    IF Len(b) = 0 THEN FALSE
    ELSE IF Len(a) = 0 THEN TRUE
    ELSE IF a[1] = b[1] THEN StrLess(Tail(a), Tail(b))
    ELSE Ord(a[1]) < Ord(b[1])

\* sorted(set): the elements of a finite set of str in ascending order
RECURSIVE SortedSeq(_)
SortedSeq(S) ==
    IF S = {} THEN << >>
    ELSE LET m == CHOOSE x \in S : \A y \in S : y = x \/ StrLess(x, y)
         IN  << m >> \o SortedSeq(S \ {m})

(***************************************************************************)
(* difflib (the standard library the resolvers call)                       *)
(***************************************************************************)

Min(x, y) == IF x <= y THEN x ELSE y

\* the length of the longest common run of a from i and b from j
RECURSIVE CommonRun(_, _, _, _, _, _)
CommonRun(a, b, i, j, ahi, bhi) ==
    IF i > ahi \/ j > bhi THEN 0
    ELSE IF a[i] # b[j] THEN 0
    ELSE 1 + CommonRun(a, b, i + 1, j + 1, ahi, bhi)

\* SequenceMatcher.find_longest_match on a[alo..ahi], b[blo..bhi] (1-based,
\* inclusive): the longest common block <<i, j, size>>, of those the one
\* starting earliest in a, of those the one starting earliest in b.
\* <<0, 0, 0>> when there is none.
FindLongestMatch(a, b, alo, ahi, blo, bhi) ==
    LET starts == { p \in (alo..ahi) \X (blo..bhi) : a[p[1]] = b[p[2]] }
        run == [p \in starts |-> CommonRun(a, b, p[1], p[2], ahi, bhi)]
    IN  IF starts = {} THEN << 0, 0, 0 >>
        ELSE LET best == CHOOSE p \in starts : \A q \in starts :
                            \/ run[p] > run[q]
                            \/ run[p] = run[q] /\ p[1] < q[1]
                            \/ run[p] = run[q] /\ p[1] = q[1] /\ p[2] <= q[2]
             IN  << best[1], best[2], run[best] >>

\* SequenceMatcher.get_matching_blocks: total size of the matching blocks;
\* m is the longest match of the window, the windows left and right of it
\* are matched in turn
RECURSIVE MatchingSize(_, _, _, _, _, _)
MatchingBlocks(a, b, alo, ahi, blo, bhi, m) ==
    IF m[3] = 0 THEN 0
    ELSE m[3]
         + MatchingSize(a, b, alo, m[1] - 1, blo, m[2] - 1)
         + MatchingSize(a, b, m[1] + m[3], ahi, m[2] + m[3], bhi)

MatchingSize(a, b, alo, ahi, blo, bhi) ==
    IF alo > ahi \/ blo > bhi THEN 0
    ELSE MatchingBlocks(a, b, alo, ahi, blo, bhi,
                        FindLongestMatch(a, b, alo, ahi, blo, bhi))

\* SequenceMatcher(None, a, b).ratio() as the exact fraction <<num, den>>:
\* 2.0 * matches / (len(a) + len(b)), and 1.0 when both are empty.
Ratio(a, b) ==
    IF Len(a) + Len(b) = 0 THEN << 1, 1 >>
    ELSE << 2 * MatchingSize(a, b, 1, Len(a), 1, Len(b)), Len(a) + Len(b) >>

\* fractions with positive denominators
FracGeq(x, y) == x[1] * y[2] >= y[1] * x[2]
FracGt(x, y) == x[1] * y[2] > y[1] * x[2]
FracAdd(x, y) == << x[1] * y[2] + y[1] * x[2], x[2] * y[2] >>

\* the cutoff 0.80 of both resolvers
Cutoff80 == << 4, 5 >>

\* get_close_matches(word, possibilities, n=1, cutoff): the possibility x
\* with the largest (ratio(x, word), x); NoMatch when none reaches cutoff.
NoMatch == << "None" >>

CloseMatch(word, possibilities, cutoff) ==
    LET score == [x \in possibilities |-> Ratio(x, word)]
        ok == { x \in possibilities : FracGeq(score[x], cutoff) }
    IN  IF ok = {} THEN NoMatch
        ELSE CHOOSE x \in ok : \A y \in ok :
                \/ y = x
                \/ FracGt(score[x], score[y])
                \/ ~FracGt(score[y], score[x]) /\ StrLess(y, x)

(***************************************************************************)
(* ir_validator.py                                                         *)
(***************************************************************************)

\* Python's None where a str may stand
None == << "None" >>

ALLOWED_OPERATORS ==
    { "eq", "gt", "lt", "gte", "lte", "in", "ne", "exists", "contains" }

MAX_LIMIT == 100

IsDotted(s) == HasChar(s, ".")

\* the smallest element of a non-empty set of integers
MinOf(S) == CHOOSE i \in S : \A j \in S : i <= j

\* step 2 of resolve_field_name: the dotted fields whose last segment is
\* uf_lower, in catalog order
SuffixMatches(ufl, allowed_fields) ==
    SelectSeq(allowed_fields,
              LAMBDA af : IsDotted(af) /\ Lower(LastSegment(af)) = ufl)

RECURSIVE SumRatios(_, _, _)
SumRatios(us, fs, n) ==
    IF n = 0 THEN << 0, 1 >>
    ELSE FracAdd(SumRatios(us, fs, n - 1), Ratio(us[n], fs[n]))

\* step 3: sum of the per-segment ratios of a dotted reference and a field
SegmentScore(ufl, af) == 
    SumRatios(SplitDots(ufl), SplitDots(Lower(af)), Len(SplitDots(ufl)))

\* step 3: the entry the loop keeps, given each entry's summed score: that
\* of the first dotted entry with as many segments as the reference whose
\* average is at least 0.80 and highest (avg > best_avg_score is strict)
BestSegmentMatch(ufl, allowed_fields, score) ==
    LET C == { i \in 1..Len(allowed_fields) :
                 /\ IsDotted(allowed_fields[i])
                 /\ Len(SplitDots(Lower(allowed_fields[i]))) = Len(SplitDots(ufl))
                 /\ FracGeq(score[i], << Cutoff80[1] * Len(SplitDots(ufl)), Cutoff80[2] >>) }
    IN  IF C = {} THEN None
        ELSE allowed_fields[
               CHOOSE i \in C : \A j \in C :
                 \/ FracGt(score[i], score[j])
                 \/ ~FracGt(score[j], score[i]) /\ i <= j ]

MultiSegmentFuzzy(ufl, allowed_fields) ==
    BestSegmentMatch(ufl, allowed_fields,
        [i \in 1..Len(allowed_fields) |->
            IF /\ IsDotted(allowed_fields[i])
               /\ Len(SplitDots(Lower(allowed_fields[i]))) = Len(SplitDots(ufl))
            THEN SegmentScore(ufl, allowed_fields[i])
            ELSE << 0, 1 >>])

\* dict assignment m[k] = v
DictPut(m, k, v) == [x \in (DOMAIN m) \cup {k} |-> IF x = k THEN v ELSE m[x]]

\* step 4: candidate_map after the first n catalog entries: the lowered
\* full path always (over)writes, the lowered last segment of a dotted
\* path only when the key is not yet there
PutSegment(m, af) ==
    IF IsDotted(af) /\ Lower(LastSegment(af)) \notin DOMAIN m
    THEN DictPut(m, Lower(LastSegment(af)), af)
    ELSE m

RECURSIVE CandidateMap(_, _)
CandidateMap(allowed_fields, n) ==
    IF n = 0 THEN << >>
    ELSE PutSegment(DictPut(CandidateMap(allowed_fields, n - 1),
                            Lower(allowed_fields[n]), allowed_fields[n]),
                    allowed_fields[n])

\* the catalog entry behind the closest candidate
Lookup(candidate_map, close) ==
    IF close = NoMatch THEN None ELSE candidate_map[close]

CloseCandidate(ufl, candidate_map) ==
    Lookup(candidate_map, CloseMatch(ufl, DOMAIN candidate_map, Cutoff80))

SingleTokenFuzzy(ufl, allowed_fields) ==
    CloseCandidate(ufl, CandidateMap(allowed_fields, Len(allowed_fields)))

\* the first of the results of steps 2, 3 and 4 that is a match
FirstMatch(suffix_matches, multi, single) ==
    IF Len(suffix_matches) >= 1 THEN suffix_matches[1]
    ELSE IF multi # None THEN multi
    ELSE single

\* steps 2 to 4 of resolve_field_name, on the stripped reference uf
ResolveAfterExact(uf, allowed_fields) ==
    FirstMatch(SuffixMatches(Lower(uf), allowed_fields),
               IF IsDotted(uf) THEN MultiSegmentFuzzy(Lower(uf), allowed_fields) ELSE None,
               SingleTokenFuzzy(Lower(uf), allowed_fields))

\* a slip in step 1: the reference as typed is returned instead of the
\* catalog entry it matched
ExactMatch_ReturnsReference(uf, allowed_fields) ==
    IF \E i \in 1..Len(allowed_fields) : Lower(allowed_fields[i]) = Lower(uf)
    THEN uf ELSE None

\* step 1: the first catalog entry equal to the reference ignoring case
ExactMatch(uf, allowed_fields) ==
    LET hits == { i \in 1..Len(allowed_fields) :
                    Lower(allowed_fields[i]) = Lower(uf) }
    IN  IF hits = {} THEN None ELSE allowed_fields[MinOf(hits)]

\* the first of the results of steps 1, 1b and 2-4 that is a match
FirstResolved(exact, spaced, rest) ==
    IF exact # None THEN exact
    ELSE IF spaced # None THEN spaced
    ELSE rest

\* resolve_field_name; step 1b is the function calling itself on the
\* reference with its blanks turned into dots
RECURSIVE resolve_field_name(_, _)
resolve_field_name(user_field, allowed_fields) ==
    FirstResolved(
        ExactMatch(Strip(user_field), allowed_fields),
        IF HasChar(Strip(user_field), " ")
        THEN resolve_field_name(SpaceToDot(Strip(user_field)), allowed_fields)
        ELSE None,
        ResolveAfterExact(Strip(user_field), allowed_fields))

\* Python truthiness of a str-or-None slot: neither None nor ""
Truthy(s) == s # None /\ s # << >>

\* one pass of the loop over ir["conditions"], resolved being the result
\* of resolve_field_name for condition i: the field is overwritten, then
\* the operator is checked; a failure raises and leaves the conditions as
\* rewritten so far
RECURSIVE ValidateConditions(_, _, _)
CheckCondition(conditions, i, allowed_fields, resolved) ==
    IF resolved = None
    THEN [conditions |-> conditions, error |-> "field_not_found"]
    ELSE IF conditions[i].operator \notin ALLOWED_OPERATORS
    THEN [conditions |-> [conditions EXCEPT ![i].field = resolved],
          error |-> "operator_not_allowed"]
    ELSE ValidateConditions([conditions EXCEPT ![i].field = resolved],
                            i + 1, allowed_fields)

ValidateConditions(conditions, i, allowed_fields) ==
    IF i > Len(conditions)
    THEN [conditions |-> conditions, error |-> "none"]
    ELSE CheckCondition(conditions, i, allowed_fields,
                        resolve_field_name(conditions[i].field, allowed_fields))

\* a slip: a raise inside the loop leaves the conditions as they were given
StoreConditions_RollsBack(r, c) ==
    [ir |-> IF c.error = "none" THEN [r.ir EXCEPT !.conditions = c.conditions] ELSE r.ir,
     error |-> c.error]

\* validate_ir runs as a chain of stages over r = [ir |-> the caller's dict
\* so far, error |-> "none" or the ValueError raised]; a stage after a raise
\* does nothing.  An optional dict or list is a sequence of length 0 (None)
\* or 1.
StoreConditions(r, c) ==
    [ir |-> [r.ir EXCEPT !.conditions = c.conditions], error |-> c.error]

ConditionsStage(r, allowed_fields) ==
    StoreConditions(r, ValidateConditions(r.ir.conditions, 1, allowed_fields))

StoreAggregation(r, resolved) ==
    IF resolved = None THEN [r EXCEPT !.error = "field_not_found"]
    ELSE [r EXCEPT !.ir.aggregation[1].field = resolved]

AggregationStage(r, allowed_fields) ==
    IF r.error = "none" /\ r.ir.aggregation # << >>
       /\ Truthy(r.ir.aggregation[1].field)
    THEN StoreAggregation(r, resolve_field_name(r.ir.aggregation[1].field,
                                                allowed_fields))
    ELSE r

StoreSort(r, resolved) ==
    IF resolved = None THEN [r EXCEPT !.error = "field_not_found"]
    ELSE [r EXCEPT !.ir.sort[1].field = resolved]

SortStage(r, allowed_fields) ==
    IF r.error = "none" /\ r.ir.sort # << >> /\ Truthy(r.ir.sort[1].field)
    THEN StoreSort(r, resolve_field_name(r.ir.sort[1].field, allowed_fields))
    ELSE r

\* the loop over ir["projection"]: resolved_projection so far, or the raise
RECURSIVE ResolveProjection(_, _, _, _)
CheckProjection(projection, i, allowed_fields, done, resolved) ==
    IF resolved = None
    THEN [resolved |-> done, error |-> "field_not_found"]
    ELSE ResolveProjection(projection, i + 1, allowed_fields,
                           Append(done, resolved))

ResolveProjection(projection, i, allowed_fields, done) ==
    IF i > Len(projection) THEN [resolved |-> done, error |-> "none"]
    ELSE CheckProjection(projection, i, allowed_fields, done,
                         resolve_field_name(projection[i], allowed_fields))

StoreProjection(r, p) ==
    IF p.error # "none" THEN [r EXCEPT !.error = p.error]
    ELSE [r EXCEPT !.ir.projection = << p.resolved >>]

ProjectionStage(r, allowed_fields) ==
    IF r.error = "none" /\ r.ir.projection # << >> /\ r.ir.projection[1] # << >>
    THEN StoreProjection(r, ResolveProjection(r.ir.projection[1], 1,
                                              allowed_fields, << >>))
    ELSE r

\* a slip in the cap: the comparison is off by one order of magnitude
ClampLimit_WrongCap(limit) ==
    IF limit # << >> /\ limit[1] > 10 * MAX_LIMIT THEN << MAX_LIMIT >> ELSE limit

\* "Enforce hard limit cap"
ClampLimit(limit) ==
    IF limit # << >> /\ limit[1] > MAX_LIMIT THEN << MAX_LIMIT >> ELSE limit

LimitStage(r) ==
    IF r.error = "none" THEN [r EXCEPT !.ir.limit = ClampLimit(r.ir.limit)]
    ELSE r

\* validate_ir: [ir |-> the caller's dict as the call leaves it,
\*               error |-> "none" when it returns, else the ValueError]
validate_ir(ir, allowed_fields) ==
    LimitStage(
        ProjectionStage(
            SortStage(
                AggregationStage(
                    ConditionsStage([ir |-> ir, error |-> "none"], allowed_fields),
                    allowed_fields),
                allowed_fields),
            allowed_fields))

(***************************************************************************)
(* llm_parser.py: what parse_with_llm does with the model's answer         *)
(***************************************************************************)

\* IR values carry their Python type: [t |-> "str" | "int" | "float",
\* v |-> the text of the str, or the decimal digits of the number]
StrValue(text) == [t |-> "str", v |-> text]

Digits == << "0", "1", "2", "3", "4", "5", "6", "7", "8", "9" >>

IsDigit(c) == \E i \in 1..Len(Digits) : Digits[i] = c

AllDigits(s) == \A i \in 1..Len(s) : IsDigit(s[i])

\* a numeric literal without its sign
Unsigned(s) == IF s # << >> /\ s[1] \in { "+", "-" } THEN Tail(s) ELSE s

Negative(s) == s # << >> /\ s[1] = "-"

\* digits without their leading zeros ("0" when nothing else is left)
RECURSIVE StripLeadingZeros(_)
StripLeadingZeros(s) ==
    IF s = << >> THEN << "0" >>
    ELSE IF s[1] = "0" THEN StripLeadingZeros(Tail(s))
    ELSE s

\* digits without their trailing zeros ("0" when nothing else is left)
RECURSIVE StripTrailingZeros(_)
StripTrailingZeros(s) ==
    IF s = << >> THEN << "0" >>
    ELSE IF s[Len(s)] = "0" THEN StripTrailingZeros(SubSeq(s, 1, Len(s) - 1))
    ELSE s

\* int(val) succeeds: blanks around, an optional sign, decimal digits
IsIntLiteral(s) ==
    Unsigned(Strip(s)) # << >> /\ AllDigits(Unsigned(Strip(s)))

\* the digits of int(val)
IntDigits(s) ==
    LET digits == StripLeadingZeros(Unsigned(Strip(s)))
    IN  IF Negative(Strip(s)) /\ digits # << "0" >> THEN << "-" >> \o digits ELSE digits

DotAt(s) == CHOOSE i \in 1..Len(s) : s[i] = "."

\* float(val) succeeds on a decimal literal: digits around one dot
IsFloatLiteral(s) ==
    LET body == Unsigned(Strip(s))
    IN  /\ Cardinality({ i \in 1..Len(body) : body[i] = "." }) = 1
        /\ Len(body) >= 2
        /\ \A i \in 1..Len(body) : body[i] = "." \/ IsDigit(body[i])

\* the digits of float(val)
FloatDigits(s) ==
    LET body == Unsigned(Strip(s))
        whole == StripLeadingZeros(Slice(body, 1, DotAt(body) - 1))
        frac == StripTrailingZeros(Slice(body, DotAt(body) + 1, Len(body)))
    IN  (IF Negative(Strip(s)) THEN << "-" >> ELSE << >>) \o whole \o << "." >> \o frac

\* int(val), else float(val), else the value as it is (str values only)
CoerceNumber(value) ==
    IF value.t # "str" THEN value
    ELSE IF IsIntLiteral(value.v) THEN [t |-> "int", v |-> IntDigits(value.v)]
    ELSE IF IsFloatLiteral(value.v) THEN [t |-> "float", v |-> FloatDigits(value.v)]
    ELSE value

LLM_ALLOWED_OPERATORS ==
    { "eq", "gt", "lt", "gte", "lte", "in", "ne", "exists", "contains" }

\* field_types.get(field): the detected type, "None" without an entry
TypeOf(field_types, field) ==
    IF field \in DOMAIN field_types THEN field_types[field] ELSE "None"

\* {f.lower() for f in allowed_fields}
AllowedLower(allowed_fields) ==
    { Lower(allowed_fields[i]) : i \in 1..Len(allowed_fields) }

\* the lower-cased last segments of the dotted catalog entries
LastSegments(allowed_fields) ==
    { Lower(LastSegment(allowed_fields[i])) :
        i \in { j \in 1..Len(allowed_fields) : IsDotted(allowed_fields[j]) } }

\* fl in allowed_lower or fl in last_segments
KnownField(name, allowed_fields) ==
    \/ Lower(name) \in AllowedLower(allowed_fields)
    \/ Lower(name) \in LastSegments(allowed_fields)

MaxOf(S) == CHOOSE i \in S : \A j \in S : i >= j

\* _fix: field_map.get(name.lower(), name); a lower-cased full path maps to
\* the last catalog entry spelled so, a last segment (setdefault) to the
\* first dotted entry ending in it unless it is a full path already
FixName(name, allowed_fields) ==
    LET full == { i \in 1..Len(allowed_fields) : Lower(allowed_fields[i]) = Lower(name) }
        seg == { i \in 1..Len(allowed_fields) :
                   /\ IsDotted(allowed_fields[i])
                   /\ Lower(LastSegment(allowed_fields[i])) = Lower(name) }
    IN  IF full # {} THEN allowed_fields[MaxOf(full)]
        ELSE IF seg # {} THEN allowed_fields[MinOf(seg)]
        ELSE name

s_star == << "*" >>

FixField(entry, allowed_fields) ==
    [entry EXCEPT !.field = FixName(entry.field, allowed_fields)]

\* _fix_field_names: condition fields, the aggregation field unless "*",
\* the sort field and the projection entries are re-cased
_fix_field_names(llm_ir, allowed_fields) ==
    [llm_ir EXCEPT
        !.conditions = [i \in 1..Len(llm_ir.conditions) |->
                          FixField(llm_ir.conditions[i], allowed_fields)],
        !.aggregation =
            IF /\ llm_ir.aggregation # << >>
               /\ Truthy(llm_ir.aggregation[1].field)
               /\ llm_ir.aggregation[1].field # s_star
            THEN << FixField(llm_ir.aggregation[1], allowed_fields) >>
            ELSE llm_ir.aggregation,
        !.sort =
            IF llm_ir.sort # << >> /\ Truthy(llm_ir.sort[1].field)
            THEN << FixField(llm_ir.sort[1], allowed_fields) >>
            ELSE llm_ir.sort,
        !.projection =
            IF llm_ir.projection # << >> /\ llm_ir.projection[1] # << >>
            THEN << [i \in 1..Len(llm_ir.projection[1]) |->
                       FixName(llm_ir.projection[1][i], allowed_fields)] >>
            ELSE llm_ir.projection]

\* the body of the loop over the conditions that are kept: "contains" on a
\* date field becomes "eq"; a str value compared with an int or float
\* field becomes a number when it reads as one
SanitizeCondition(cond, ftype) ==
    LET operator == IF ftype = "date" /\ cond.operator = "contains"
                    THEN "eq" ELSE cond.operator
    IN  [cond EXCEPT
            !.operator = operator,
            !.value = IF /\ ftype \in { "int", "float" }
                         /\ operator \in { "eq", "gt", "lt", "gte", "lte", "ne" }
                      THEN CoerceNumber(cond.value)
                      ELSE cond.value]

\* clean_conditions: the conditions naming a known field, sanitised
RECURSIVE CleanConditions(_, _, _)
CleanConditions(conditions, allowed_fields, field_types) ==
    IF conditions = << >> THEN << >>
    ELSE IF ~KnownField(Head(conditions).field, allowed_fields)
    THEN CleanConditions(Tail(conditions), allowed_fields, field_types)
    ELSE << SanitizeCondition(Head(conditions),
                              TypeOf(field_types, Head(conditions).field)) >>
         \o CleanConditions(Tail(conditions), allowed_fields, field_types)

\* a slip in the sanitiser: every projection entry is kept
CleanProjection_KeepsAll(projection, allowed_fields) == projection

\* clean_proj: the projection entries naming a known field
RECURSIVE CleanProjection(_, _)
CleanProjection(projection, allowed_fields) ==
    IF projection = << >> THEN << >>
    ELSE IF KnownField(Head(projection), allowed_fields)
    THEN << Head(projection) >> \o CleanProjection(Tail(projection), allowed_fields)
    ELSE CleanProjection(Tail(projection), allowed_fields)

\* ir["projection"] = clean_proj if clean_proj else None
ProjectionOrNone(clean_proj) == IF clean_proj # << >> THEN << clean_proj >> ELSE << >>

\* limits that are not positive become None, limits above 100 become 100
SanitizeLimit(limit) ==
    IF limit = << >> THEN limit
    ELSE IF limit[1] <= 0 THEN << >>
    ELSE IF limit[1] > 100 THEN << 100 >>
    ELSE limit

_sanitize_ir_values(llm_ir, allowed_fields, field_types) ==
    [llm_ir EXCEPT
        !.conditions = CleanConditions(llm_ir.conditions, allowed_fields, field_types),
        !.projection =
            IF llm_ir.projection # << >> /\ llm_ir.projection[1] # << >>
            THEN ProjectionOrNone(CleanProjection(llm_ir.projection[1], allowed_fields))
            ELSE llm_ir.projection,
        !.limit = SanitizeLimit(llm_ir.limit)]

_validate_ir_structure(llm_ir, allowed_fields) ==
    /\ llm_ir.operation \in { "find", "aggregate" }
    /\ \A i \in 1..Len(llm_ir.conditions) :
          /\ llm_ir.conditions[i].operator \in LLM_ALLOWED_OPERATORS
          /\ KnownField(llm_ir.conditions[i].field, allowed_fields)
    /\ llm_ir.aggregation # << >> =>
          llm_ir.aggregation[1].type \in { "count", "avg", "sum", "max", "min" }
    /\ llm_ir.sort # << >> => llm_ir.sort[1].direction \in { "asc", "desc" }

\* ir["meta"] of a model-backed IR (model name and latency left out)
LLMMeta == [confidence |-> "0.95", needs_clarification |-> FALSE, parser |-> "llm"]

WithMeta(some_ir, meta) ==
    [k \in DOMAIN some_ir \cup { "meta" } |-> IF k = "meta" THEN meta ELSE some_ir[k]]

\* the IR, if any, that survives _validate_ir_structure
Structured(llm_ir, allowed_fields) ==
    IF _validate_ir_structure(llm_ir, allowed_fields)
    THEN << WithMeta(llm_ir, LLMMeta) >>
    ELSE << >>

\* parse_with_llm from _extract_json on; extracted is the JSON object read
\* from the model's answer, << >> when there is no key, no client, no
\* answer or no JSON in it
parse_with_llm(extracted, allowed_fields, field_types) ==
    IF extracted = << >> THEN << >>
    ELSE Structured(
             _sanitize_ir_values(_fix_field_names(extracted[1], allowed_fields),
                                 allowed_fields, field_types),
             allowed_fields)

(***************************************************************************)
(* ir_compiler.py: whether compile_ir_to_mongo returns, and the plan's     *)
(* type, sort and limit                                                    *)
(***************************************************************************)

\* compile_ir_to_mongo raises in its aggregation branch: subscripting a
\* None aggregation (TypeError), an aggregation type without an entry in
\* operator_map (KeyError)
CompileRaises(validated_ir) ==
    /\ validated_ir.operation = "aggregate"
    /\ \/ validated_ir.aggregation = << >>
       \/ validated_ir.aggregation[1].type \notin { "count", "avg", "sum", "max", "min" }

\* mongo_query["sort"]: (field, 1) for "asc", (field, -1) otherwise
SortPair(sort) ==
    IF sort = << >> THEN << >>
    ELSE << << sort[1].field, IF sort[1].direction = "asc" THEN 1 ELSE -1 >> >>

DefaultFindLimit == 20

\* the plan of an IR that compiles (filter and pipeline stages apart)
compile_ir_to_mongo(validated_ir) ==
    IF validated_ir.operation = "find"
    THEN [type |-> "find", sort |-> SortPair(validated_ir.sort), limit |-> validated_ir.limit]
    ELSE IF validated_ir.operation = "aggregate"
    THEN [type |-> "aggregate", sort |-> << >>, limit |-> << >>]
    ELSE [type |-> "find", sort |-> << >>, limit |-> << DefaultFindLimit >>]

(***************************************************************************)
(* app.py: the stages of run_nlp, run_nlp_stream and diagnose              *)
(***************************************************************************)

\* if PARSER_MODE in ("auto", "llm")
TriesLLM(mode) == mode \in { "auto", "llm" }

\* if not ir and PARSER_MODE in ("auto", "rule")
TriesRule(current_ir, mode) == current_ir = << >> /\ mode \in { "auto", "rule" }

\* a slip: parse_with_llm takes the history it is passed
PassesHistory_Never(which) == FALSE

\* run_nlp and diagnose call parse_with_llm(..., history=request.history);
\* parse_with_llm has no such parameter and the call raises TypeError
PassesHistory(which) == which \in { "run_nlp", "diagnose" }

\* what the call of parse_with_llm can come to: it raises (always so with
\* history=, else on an answer its post-processing cannot read), or it
\* returns what parse_with_llm makes of the model's answer
LLMOutcomes(which, answers, catalog_fields, types) ==
    IF PassesHistory(which)
    THEN { [raised |-> TRUE, extracted |-> << >>, ir |-> << >>] }
    ELSE { [raised |-> TRUE, extracted |-> << >>, ir |-> << >>] }
         \cup { [raised |-> FALSE, extracted |-> answer,
                 ir |-> parse_with_llm(answer, catalog_fields, types)] :
                answer \in answers }

\* if ir: parser_used = "llm"
TagAfterLLM(llm_ir, tag) == IF llm_ir # << >> THEN "llm" ELSE tag

\* a slip: the provenance tag is not set when the rule-based IR is taken
TagAfterRule_NotSet(rule_ir, tag) == tag

\* if ir: parser_used = "rule-based"
TagAfterRule(rule_ir, tag) == IF rule_ir # << >> THEN "rule-based" ELSE tag

\* validate_ir raising ValueError ends the request, else compilation is next
AfterValidate(error) == IF error = "none" THEN "compile" ELSE "done"

\* a slip: the empty catalog is not refused
RefusesEmpty_Never(which, catalog_fields) == FALSE

\* the empty-catalog refusal of run_nlp and run_nlp_stream (diagnose has none)
RefusesEmpty(which, catalog_fields) == which # "diagnose" /\ catalog_fields = << >>

(***************************************************************************)
(* schema_utils.py: the process-wide schema cache                          *)
(***************************************************************************)

\* f"{uri}-{db}-{collection}"
_cache_key(collection_id) ==
    collection_id[1] \o << "-" >> \o collection_id[2] \o << "-" >> \o collection_id[3]

\* a slip: the cache is never found to hold the key
CacheHit_Never(cache, key) == FALSE

\* key in schema_cache
CacheHit(cache, key) == key \in DOMAIN cache

\* schema_cache[key] = result
CachePut(cache, key, result) ==
    [k \in DOMAIN cache \cup { key } |-> IF k = key THEN result ELSE cache[k]]

\* schema_cache.pop(key, None)
CachePop(cache, key) == [k \in DOMAIN cache \ { key } |-> cache[k]]

\* what get_collection_schema returns for a collection: the catalog of the
\* documents it holds at the moment of sampling
get_collection_schema(collection_id, documents) ==
    [collection |-> collection_id, version |-> documents[collection_id]]

(***************************************************************************)
(* schema_utils.py: type detection and schema sampling                     *)
(***************************************************************************)

\* a BSON value as the driver hands it over: its Python type, for a dict its
\* entries and for a list its elements; key is the key it is stored under
\* in its dict, '' for a list element
Node(key, kind, items) == [key |-> key, kind |-> kind, items |-> items]

HasKind(elements, kinds) == \E i \in 1..Len(elements) : elements[i].kind \in kinds

\* isinstance(v, (int, float)) is true of a bool as well
NumberKinds == { "int", "float", "bool" }

_detect_type(value) ==
    IF value.kind = "bool" THEN "bool"
    ELSE IF value.kind = "date" THEN "date"
    ELSE IF value.kind = "int" THEN "int"
    ELSE IF value.kind = "float" THEN "float"
    ELSE IF value.kind = "str" THEN "string"
    ELSE IF value.kind = "dict" THEN "object"
    ELSE IF value.kind = "list"
         THEN IF value.items = << >> THEN "array_mixed"
              ELSE IF HasKind(value.items, { "dict" }) THEN "array_of_objects"
              ELSE IF HasKind(value.items, { "str" }) /\ ~HasKind(value.items, NumberKinds)
                   THEN "array_of_strings"
              ELSE IF HasKind(value.items, NumberKinds) /\ ~HasKind(value.items, { "str" })
                   THEN "array_of_numbers"
              ELSE "array_mixed"
    ELSE "unknown"

\* _type_priority.get(ftype, 0)
_type_priority(ftype) ==
    CASE ftype = "unknown" -> 0
      [] ftype \in { "string", "bool" } -> 1
      [] ftype \in { "date", "int", "float" } -> 2
      [] ftype = "array_mixed" -> 3
      [] ftype \in { "array_of_numbers", "array_of_strings" } -> 4
      [] ftype \in { "array_of_objects", "object" } -> 5
      [] OTHER -> 0

s__id == << "_", "i", "d" >>

\* a slip: the identifier is flattened like any other key
IsTopLevelId_Never(key, parent_key) == FALSE

\* key == "_id" and parent_key == ""
IsTopLevelId(key, parent_key) == key = s__id /\ parent_key = << >>

\* f"{parent_key}{sep}{key}" if parent_key else key
JoinKey(parent_key, key) ==
    IF parent_key = << >> THEN key ELSE parent_key \o << "." >> \o key

\* a slip: the type seen last always replaces the recorded one
MergeType_AlwaysOverwrites(types, path, ftype) == DictPut(types, path, ftype)

\* existing = field_types.get(path); the type is recorded when there is
\* none yet or when its priority is higher than the recorded type's
MergeType(types, path, ftype) ==
    IF path \notin DOMAIN types \/ _type_priority(ftype) > _type_priority(types[path])
    THEN DictPut(types, path, ftype)
    ELSE types

\* one call of _detect_type on the value found at a path
Observation(path, ftype) == [path |-> path, ftype |-> ftype]

\* the paths and types _detect_field_types_recursive hands to the merge, in
\* the order of its walk: every key of the document, then the keys of an
\* embedded dict or of the dicts in a list
RECURSIVE _detect_field_types_recursive(_, _)
RECURSIVE DetectElements(_, _)
DetectEntry(entry, parent_key) ==
    IF IsTopLevelId(entry.key, parent_key) THEN << >>
    ELSE << Observation(JoinKey(parent_key, entry.key), _detect_type(entry)) >>
         \o (IF entry.kind = "dict"
             THEN _detect_field_types_recursive(entry.items, JoinKey(parent_key, entry.key))
             ELSE IF entry.kind = "list"
                  THEN DetectElements(entry.items, JoinKey(parent_key, entry.key))
                  ELSE << >>)

_detect_field_types_recursive(doc, parent_key) ==
    IF doc = << >> THEN << >>
    ELSE DetectEntry(Head(doc), parent_key)
         \o _detect_field_types_recursive(Tail(doc), parent_key)

DetectElements(elements, full_key) ==
    IF elements = << >> THEN << >>
    ELSE (IF Head(elements).kind = "dict"
          THEN _detect_field_types_recursive(Head(elements).items, full_key)
          ELSE << >>)
         \o DetectElements(Tail(elements), full_key)

\* items[path] = value on a dict kept in insertion order
FlatItem(path, value) == [path |-> path, value |-> value]

ItemSet(items, path, value) ==
    IF \E i \in 1..Len(items) : items[i].path = path
    THEN [i \in 1..Len(items) |->
            IF items[i].path = path THEN FlatItem(path, value) ELSE items[i]]
    ELSE Append(items, FlatItem(path, value))

\* items.update(other)
RECURSIVE ItemsUpdate(_, _)
ItemsUpdate(items, other) ==
    IF other = << >> THEN items
    ELSE ItemsUpdate(ItemSet(items, Head(other).path, Head(other).value), Tail(other))

\* flatten_document: embedded dicts and the dicts of a list are expanded
\* into dotted keys, everything else is a terminal field
RECURSIVE FlattenInto(_, _, _)
RECURSIVE FlattenElements(_, _, _)
FlattenEntry(entry, parent_key, items) ==
    IF IsTopLevelId(entry.key, parent_key) THEN items
    ELSE IF entry.kind = "dict"
         THEN ItemsUpdate(items, FlattenInto(entry.items, JoinKey(parent_key, entry.key), << >>))
    ELSE IF entry.kind = "list" /\ entry.items # << >> /\ HasKind(entry.items, { "dict" })
         THEN FlattenElements(entry.items, JoinKey(parent_key, entry.key), items)
    ELSE ItemSet(items, JoinKey(parent_key, entry.key), entry)

FlattenInto(doc, parent_key, items) ==
    IF doc = << >> THEN items
    ELSE FlattenInto(Tail(doc), parent_key, FlattenEntry(Head(doc), parent_key, items))

FlattenElements(elements, new_key, items) ==
    IF elements = << >> THEN items
    ELSE FlattenElements(Tail(elements), new_key,
            IF Head(elements).kind = "dict"
            THEN ItemsUpdate(items, FlattenInto(Head(elements).items, new_key, << >>))
            ELSE items)

flatten_document(doc, parent_key) == FlattenInto(doc, parent_key, << >>)

\* isinstance(value, (int, float)) and not isinstance(value, bool)
IsNumeric(value) == value.kind \in { "int", "float" }

(***************************************************************************)
(* Inputs: field references, catalogs and IRs                              *)
(***************************************************************************)

MaxCatalog == 2
MaxConds == 2

s_name == << "n", "a", "m", "e" >>
s_Name == << "N", "a", "m", "e" >>
s_a_city == << "a", ".", "c", "i", "t", "y" >>
s_g_city == << "g", ".", "c", "i", "t", "y" >>
s_city == << "c", "i", "t", "y" >>
s_nam == << "n", "a", "m" >>
s_zip == << "z", "i", "p" >>
s_a_sp_city == << "a", " ", "c", "i", "t", "y" >>
s_a_cty == << "a", ".", "c", "t", "y" >>
s_NAME_sp == << " ", "N", "A", "M", "E", " " >>
s_NAME == << "N", "A", "M", "E" >>
s_age == << "a", "g", "e" >>
s_born == << "b", "o", "r", "n" >>
v_Alice == << "A", "l", "i", "c", "e" >>
v_Paris == << "P", "a", "r", "i", "s" >>
v_30 == << "3", "0" >>

\* field-paths a sampled collection may yield
CatalogPool == { s_name, s_Name, s_a_city, s_g_city }

\* get_collection_schema returns sorted(all_fields): a catalog is a sorted
\* list without repetition (the empty one for an empty sample)
Catalogs == { SortedSeq(S) : S \in { T \in SUBSET CatalogPool : Cardinality(T) <= MaxCatalog } }

\* condition lists of a parser's IR
CondPool ==
    { [field |-> s_NAME_sp, operator |-> "eq", value |-> StrValue(v_Alice)],
      [field |-> s_city, operator |-> "between", value |-> StrValue(v_Paris)],
      [field |-> s_zip, operator |-> "gt", value |-> StrValue(v_30)] }

RECURSIVE SeqsUpTo(_, _)
SeqsUpTo(S, n) ==
    IF n = 0 THEN { << >> }
    ELSE LET shorter == SeqsUpTo(S, n - 1)
         IN  shorter \cup { Append(q, x) : q \in { r \in shorter : Len(r) = n - 1 }, x \in S }

AggPool ==
    { << >>,
      << [type |-> "count", field |-> None] >>,
      << [type |-> "avg", field |-> s_a_sp_city] >> }

SortPool ==
    { << >>,
      << [field |-> s_a_cty, direction |-> "desc"] >>,
      << [field |-> << >>, direction |-> "asc"] >> }

ProjPool ==
    { << >>,
      << << s_nam, s_city >> >>,
      << << s_name, s_zip >> >> }

LimitPool == { << >>, << 1 >>, << MAX_LIMIT >>, << MAX_LIMIT + 1 >> }

IRPool ==
    [ operation : { "find" },
      conditions : SeqsUpTo(CondPool, MaxConds),
      aggregation : AggPool,
      sort : SortPool,
      limit : LimitPool,
      projection : ProjPool ]

(***************************************************************************)
(* Inputs of the request pipeline                                          *)
(***************************************************************************)

Endpoints == { "run_nlp", "run_nlp_stream", "diagnose" }

\* PARSER_MODE is read from the environment: any text may be set
ParserModes == { "auto", "llm", "rule", "off" }

\* what get_cached_schema returns: the field-paths and their detected types
TypedCatalogs ==
    { [allowed_fields |-> << >>, field_types |-> << >>],
      [allowed_fields |-> << s_a_city, s_name >>,
       field_types |-> (s_a_city :> "string") @@ (s_name :> "string")],
      [allowed_fields |-> << s_age, s_born, s_name >>,
       field_types |-> (s_age :> "int") @@ (s_born :> "date") @@ (s_name :> "string")] }

Condition(field, operator, value) ==
    [field |-> field, operator |-> operator, value |-> value]

\* condition lists of the model's answers: a field in another case, a field
\* the catalog does not have, "contains" on a date, a number as text, an
\* operator outside the allow-list
LLMConditionLists ==
    { << >>,
      << Condition(s_NAME, "eq", StrValue(v_Alice)) >>,
      << Condition(s_zip, "gt", StrValue(v_30)), Condition(s_name, "eq", StrValue(v_Alice)) >>,
      << Condition(s_born, "contains", StrValue(v_Alice)), Condition(s_age, "gt", StrValue(v_30)) >>,
      << Condition(s_name, "regex", StrValue(v_Alice)) >> }

\* the JSON objects _extract_json reads from the model's answers
LLMAnswers ==
    { << answer >> : answer \in
        [ operation : { "find", "aggregate", "delete" },
          conditions : LLMConditionLists,
          aggregation : { << >>, << [type |-> "count", field |-> None] >> },
          sort : { << >>, << [field |-> s_zip, direction |-> "asc"] >> },
          limit : { << >>, << 0 >>, << 500 >> },
          projection : { << >>, << << s_name, s_zip >> >>, << << s_zip >> >> } ] }
    \cup { << >> }

\* ir["meta"] of a rule-based IR
RuleMeta(confidence) == [confidence |-> confidence, needs_clarification |-> FALSE]

\* what parse_to_ir may return for some request text over this catalog:
\* None, a show-all find with the default limit, a find or a count on a
\* field it matched in the catalog
RuleResults(catalog_fields) ==
    { << >>,
      << WithMeta([operation |-> "find", conditions |-> << >>, aggregation |-> << >>,
                   sort |-> << >>, limit |-> << 20 >>, projection |-> << >>],
                  RuleMeta("0.6")) >> }
    \cup { << WithMeta([operation |-> "find",
                        conditions |-> << Condition(catalog_fields[i], "eq", StrValue(v_Alice)) >>,
                        aggregation |-> << >>, sort |-> << >>, limit |-> << >>,
                        projection |-> << >>],
                       RuleMeta("0.9")) >> : i \in 1..Len(catalog_fields) }
    \cup { << WithMeta([operation |-> "aggregate",
                        conditions |-> << Condition(catalog_fields[i], "gt",
                                                    [t |-> "int", v |-> v_30]) >>,
                        aggregation |-> << [type |-> "count", field |-> None] >>,
                        sort |-> << >>, limit |-> << >>, projection |-> << >>],
                       RuleMeta("0.9")) >> : i \in 1..Len(catalog_fields) }

(***************************************************************************)
(* parser.py: the keyword tables                                           *)
(***************************************************************************)

COMPARISON_GT ==
    { << "o", "l", "d", "e", "r" >>, << "g", "r", "e", "a", "t", "e", "r" >>,
      << "m", "o", "r", "e" >>, << "a", "b", "o", "v", "e" >>, << "o", "v", "e", "r" >>,
      << "h", "i", "g", "h", "e", "r" >>, << "b", "i", "g", "g", "e", "r" >> }

COMPARISON_LT ==
    { << "y", "o", "u", "n", "g", "e", "r" >>, << "l", "e", "s", "s" >>,
      << "f", "e", "w", "e", "r" >>, << "b", "e", "l", "o", "w" >>,
      << "u", "n", "d", "e", "r" >>, << "l", "o", "w", "e", "r" >>,
      << "s", "m", "a", "l", "l", "e", "r" >> }

SHOW_KEYWORDS ==
    { << "s", "h", "o", "w" >>, << "l", "i", "s", "t" >>, << "f", "i", "n", "d" >>,
      << "g", "e", "t" >>, << "d", "i", "s", "p", "l", "a", "y" >>,
      << "f", "e", "t", "c", "h" >>, << "a", "l", "l" >>, << "s", "e", "l", "e", "c", "t" >>,
      << "w", "h", "a", "t" >>, << "w", "h", "i", "c", "h" >>, << "g", "i", "v", "e" >>,
      << "t", "e", "l", "l" >>, << "r", "e", "t", "u", "r", "n" >>,
      << "r", "e", "t", "r", "i", "e", "v", "e" >>, << "p", "u", "l", "l" >>,
      << "p", "l", "e", "a", "s", "e" >>, << "c", "a", "n" >>, << "c", "o", "u", "l", "d" >>,
      << "w", "a", "n", "t" >>, << "n", "e", "e", "d" >>, << "s", "e", "e" >>,
      << "w", "h", "o" >>, << "w", "h", "e", "n" >>, << "w", "h", "e", "r", "e" >>,
      << "h", "o", "w" >> }

PROJECTION_KEYWORDS ==
    { << "s", "h", "o", "w" >>, << "d", "i", "s", "p", "l", "a", "y" >>,
      << "s", "e", "l", "e", "c", "t" >>, << "r", "e", "t", "u", "r", "n" >>,
      << "g", "e", "t" >>, << "o", "n", "l", "y" >>, << "w", "h", "a", "t" >>,
      << "w", "h", "i", "c", "h" >>, << "g", "i", "v", "e" >>, << "t", "e", "l", "l" >>,
      << "r", "e", "t", "r", "i", "e", "v", "e" >>, << "f", "i", "n", "d" >>,
      << "l", "i", "s", "t" >> }

_CONDITION_TRIGGERS ==
    { << "w", "h", "e", "r", "e" >>, << "w", "i", "t", "h" >>,
      << "h", "a", "v", "i", "n", "g" >>, << "w", "h", "o", "s", "e" >>,
      << "w", "h", "e", "n" >>, << "i", "f" >>, << "t", "h", "a", "t" >>,
      << "w", "h", "i", "c", "h" >> }

_PROJECTION_FILLER ==
    { << "m", "e" >>, << "t", "h", "e" >>, << "a" >>, << "a", "n" >>, << "m", "y" >>,
      << "a", "l", "l" >>, << "i", "t", "s" >>, << "e", "n", "t", "i", "r", "e" >>,
      << "c", "o", "m", "p", "l", "e", "t", "e" >>, << "f", "u", "l", "l" >>,
      << "w", "h", "o", "l", "e" >>, << "r", "o", "w" >>, << "r", "o", "w", "s" >>,
      << "r", "e", "c", "o", "r", "d" >>, << "r", "e", "c", "o", "r", "d", "s" >>,
      << "d", "o", "c", "u", "m", "e", "n", "t" >>,
      << "d", "o", "c", "u", "m", "e", "n", "t", "s" >>, << "d", "o", "c" >>,
      << "d", "o", "c", "s" >>, << "e", "n", "t", "r", "y" >>,
      << "e", "n", "t", "r", "i", "e", "s" >>, << "d", "a", "t", "a" >>,
      << "v", "a", "l", "u", "e" >>, << "v", "a", "l", "u", "e", "s" >>,
      << "f", "i", "e", "l", "d" >>, << "f", "i", "e", "l", "d", "s" >>,
      << "c", "o", "l", "u", "m", "n" >>, << "c", "o", "l", "u", "m", "n", "s" >>,
      << "i", "s" >>, << "a", "r", "e" >>, << "w", "a", "s" >>, << "w", "e", "r", "e" >>,
      << "f", "r", "o", "m" >>, << "p", "l", "e", "a", "s", "e" >>, << "c", "a", "n" >>,
      << "c", "o", "u", "l", "d" >>, << "w", "o", "u", "l", "d" >>, << "w", "i", "l", "l" >>,
      << "y", "o", "u" >>, << "i" >>, << "w", "a", "n", "t" >>, << "n", "e", "e", "d" >>,
      << "t", "o" >>, << "s", "e", "e" >>, << "h", "a", "v", "e" >>, << "h", "a", "s" >>,
      << "d", "o" >>, << "d", "o", "e", "s" >>, << "t", "e", "l", "l" >>,
      << "a", "b", "o", "u", "t" >>, << "c", "u", "r", "r", "e", "n", "t", "l", "y" >>,
      << "s", "p", "e", "c", "i", "f", "i", "c" >>,
      << "p", "a", "r", "t", "i", "c", "u", "l", "a", "r" >>, << "e", "x", "a", "c", "t" >>,
      << "c", "e", "r", "t", "a", "i", "n" >>, << "e", "v", "e", "r", "y" >>,
      << "a", "n", "y" >>, << "s", "o", "m", "e" >>, << "e", "a", "c", "h" >>,
      << "o", "u", "r" >>, << "t", "h", "e", "i", "r" >>, << "y", "o", "u", "r" >>,
      << "i", "n", "f", "o", "r", "m", "a", "t", "i", "o", "n" >>, << "i", "n", "f", "o" >>,
      << "d", "e", "t", "a", "i", "l", "s" >>, << "d", "e", "t", "a", "i", "l" >>,
      << "e", "v", "e", "r", "y", "t", "h", "i", "n", "g" >>,
      << "a", "n", "y", "t", "h", "i", "n", "g" >>,
      << "s", "o", "m", "e", "t", "h", "i", "n", "g" >>,
      << "c", "o", "n", "t", "a", "c", "t" >>, << "c", "u", "r", "r", "e", "n", "t" >>,
      << "n", "e", "w" >>, << "o", "l", "d" >>, << "o", "p", "e", "n" >>,
      << "c", "l", "o", "s", "e", "d" >> }

_NOISE ==
    { << "s", "h", "o", "w" >>, << "l", "i", "s", "t" >>, << "f", "i", "n", "d" >>,
      << "g", "e", "t" >>, << "d", "i", "s", "p", "l", "a", "y" >>,
      << "f", "e", "t", "c", "h" >>, << "a", "l", "l" >>, << "s", "e", "l", "e", "c", "t" >>,
      << "r", "e", "c", "o", "r", "d", "s" >>,
      << "d", "o", "c", "u", "m", "e", "n", "t", "s" >>, << "d", "o", "c", "s" >>,
      << "e", "n", "t", "r", "i", "e", "s" >>, << "r", "o", "w", "s" >>,
      << "r", "e", "s", "u", "l", "t", "s" >>, << "w", "h", "e", "r", "e" >>,
      << "a", "n", "d" >>, << "o", "r" >>, << "t", "h", "e" >>, << "a" >>, << "a", "n" >>,
      << "o", "f" >>, << "f", "o", "r" >>, << "w", "i", "t", "h" >>, << "i", "s" >>,
      << "a", "r", "e" >>, << "w", "a", "s" >>, << "w", "e", "r", "e" >>, << "n", "o", "t" >>,
      << "n", "o" >>, << "t", "o" >>, << "f", "r", "o", "m" >>, << "b", "y" >>, << "i", "n" >>,
      << "o", "n" >>, << "a", "t" >>, << "t", "h", "a", "t" >>, << "t", "h", "i", "s" >>,
      << "i", "t" >>, << "i", "t", "s" >>, << "m", "y" >>, << "m", "e" >>,
      << "w", "h", "i", "c", "h" >>, << "w", "h", "o" >>, << "w", "h", "a", "t" >>,
      << "h", "o", "w" >>, << "m", "a", "n", "y" >>, << "m", "u", "c", "h" >>,
      << "t", "h", "a", "n" >>, << "g", "r", "e", "a", "t", "e", "r" >>,
      << "l", "e", "s", "s" >>, << "m", "o", "r", "e" >>, << "f", "e", "w", "e", "r" >>,
      << "a", "b", "o", "v", "e" >>, << "b", "e", "l", "o", "w" >>, << "o", "v", "e", "r" >>,
      << "u", "n", "d", "e", "r" >>, << "o", "l", "d", "e", "r" >>,
      << "y", "o", "u", "n", "g", "e", "r" >>, << "h", "i", "g", "h", "e", "r" >>,
      << "l", "o", "w", "e", "r" >>, << "b", "i", "g", "g", "e", "r" >>,
      << "s", "m", "a", "l", "l", "e", "r" >>, << "s", "o", "r", "t", "e", "d" >>,
      << "s", "o", "r", "t" >>, << "o", "r", "d", "e", "r" >>,
      << "o", "r", "d", "e", "r", "e", "d" >>, << "l", "i", "m", "i", "t" >>,
      << "t", "o", "p" >>, << "f", "i", "r", "s", "t" >>,
      << "a", "s", "c", "e", "n", "d", "i", "n", "g" >>,
      << "d", "e", "s", "c", "e", "n", "d", "i", "n", "g" >>, << "a", "s", "c" >>,
      << "d", "e", "s", "c" >>, << "u", "p" >>, << "d", "o", "w", "n" >>,
      << "c", "o", "u", "n", "t" >>, << "a", "v", "e", "r", "a", "g", "e" >>,
      << "a", "v", "g" >>, << "s", "u", "m" >>, << "t", "o", "t", "a", "l" >>,
      << "m", "a", "x" >>, << "m", "i", "n" >>, << "m", "a", "x", "i", "m", "u", "m" >>,
      << "m", "i", "n", "i", "m", "u", "m" >>, << "h", "i", "g", "h", "e", "s", "t" >>,
      << "l", "o", "w", "e", "s", "t" >>, << "m", "e", "a", "n" >>,
      << "n", "u", "m", "b", "e", "r" >>, << "e", "q", "u", "a", "l", "s" >>,
      << "e", "q", "u", "a", "l" >>, << "c", "o", "n", "t", "a", "i", "n", "s" >>,
      << "c", "o", "n", "t", "a", "i", "n", "i", "n", "g" >>,
      << "i", "n", "c", "l", "u", "d", "e", "s" >>,
      << "i", "n", "c", "l", "u", "d", "i", "n", "g" >>, << "h", "a", "s" >>,
      << "l", "i", "k", "e" >>, << "m", "a", "t", "c", "h", "e", "s" >>,
      << "m", "a", "t", "c", "h", "i", "n", "g" >>, << "p", "l", "e", "a", "s", "e" >>,
      << "c", "a", "n" >>, << "c", "o", "u", "l", "d" >>, << "w", "o", "u", "l", "d" >>,
      << "y", "o", "u" >>, << "w", "a", "n", "t" >>, << "n", "e", "e", "d" >>, << "i" >>,
      << "d", "o" >>, << "d", "o", "e", "s" >>, << "t", "e", "l", "l" >>,
      << "a", "b", "o", "u", "t" >>, << "g", "i", "v", "e" >>,
      << "b", "e", "t", "w", "e", "e", "n" >>, << "h", "a", "v", "i", "n", "g" >>,
      << "w", "h", "o", "s", "e" >>, << "w", "h", "e", "n" >>, << "i", "f" >>,
      << "w", "i", "t", "h", "o", "u", "t" >>,
      << "e", "x", "c", "l", "u", "d", "i", "n", "g" >>, << "e", "x", "c", "e", "p", "t" >>,
      << "b", "u", "t" >>, << "r", "o", "w" >>, << "c", "o", "l", "u", "m", "n" >>,
      << "f", "i", "e", "l", "d" >>, << "v", "a", "l", "u", "e" >>,
      << "t", "o", "d", "a", "y" >>, << "y", "e", "s", "t", "e", "r", "d", "a", "y" >>,
      << "t", "o", "m", "o", "r", "r", "o", "w" >>,
      << "c", "u", "r", "r", "e", "n", "t", "l", "y" >>,
      << "r", "e", "c", "e", "n", "t", "l", "y" >>, << "a", "g", "o" >>, << "o", "u", "r" >>,
      << "t", "h", "e", "i", "r" >>, << "y", "o", "u", "r" >>, << "h", "i", "s" >>,
      << "h", "e", "r" >>, << "b", "e", "s", "t" >>, << "w", "o", "r", "s", "t" >>,
      << "n", "e", "w", "e", "s", "t" >>, << "o", "l", "d", "e", "s", "t" >>,
      << "c", "h", "e", "a", "p", "e", "s", "t" >>, << "f", "a", "s", "t", "e", "s", "t" >>,
      << "s", "l", "o", "w", "e", "s", "t" >>, << "l", "a", "t", "e", "s", "t" >>,
      << "e", "a", "r", "l", "i", "e", "s", "t" >>, << "e", "v", "e", "r", "y" >>,
      << "a", "n", "y" >>, << "s", "o", "m", "e" >>, << "e", "a", "c", "h" >>,
      << "m", "a", "d", "e" >>, << "d", "i", "d" >>, << "g", "o", "t" >>,
      << "w", "e", "n", "t" >>, << "c", "a", "m", "e" >>, << "m", "o", "n", "e", "y" >>,
      << "f", "i", "g", "u", "r", "e", "s" >>, << "d", "e", "t", "a", "i", "l", "s" >>,
      << "i", "n", "f", "o", "r", "m", "a", "t", "i", "o", "n" >>, << "i", "n", "f", "o" >>,
      << "e", "v", "e", "r", "y", "t", "h", "i", "n", "g" >>,
      << "a", "n", "y", "t", "h", "i", "n", "g" >>,
      << "s", "o", "m", "e", "t", "h", "i", "n", "g" >> }

_CLAUSE_BREAKS ==
    { << "s", "o", "r", "t", "e", "d" >>, << "s", "o", "r", "t" >>,
      << "o", "r", "d", "e", "r", "e", "d" >>, << "l", "i", "m", "i", "t" >>,
      << "t", "o", "p" >>, << "f", "i", "r", "s", "t" >>,
      << "a", "s", "c", "e", "n", "d", "i", "n", "g" >>,
      << "d", "e", "s", "c", "e", "n", "d", "i", "n", "g" >>, << "a", "s", "c" >>,
      << "d", "e", "s", "c" >> }

_OP_EQ ==
    { << "i", "s" >>, << "=" >>, << "e", "q", "u", "a", "l", "s" >>,
      << "e", "q", "u", "a", "l" >>, << "=", "=" >>, << "b", "e", "i", "n", "g" >> }

_OP_NEQ ==
    { << "n", "o", "t" >>, << "i", "s", "n", "t" >>, << "i", "s", "n", "'", "t" >>,
      << "!", "=" >>, << "n", "e" >>, << "e", "x", "c", "e", "p", "t" >>,
      << "e", "x", "c", "l", "u", "d", "i", "n", "g" >> }

_OP_CONTAINS ==
    { << "c", "o", "n", "t", "a", "i", "n", "s" >>,
      << "c", "o", "n", "t", "a", "i", "n", "i", "n", "g" >>,
      << "i", "n", "c", "l", "u", "d", "e", "s" >>,
      << "i", "n", "c", "l", "u", "d", "i", "n", "g" >>, << "l", "i", "k", "e" >>,
      << "m", "a", "t", "c", "h", "e", "s" >>, << "m", "a", "t", "c", "h", "i", "n", "g" >> }

_OP_GT ==
    { << "g", "r", "e", "a", "t", "e", "r" >>, << "m", "o", "r", "e" >>,
      << "a", "b", "o", "v", "e" >>, << "o", "v", "e", "r" >>,
      << "h", "i", "g", "h", "e", "r" >>, << ">" >>, << "a", "f", "t", "e", "r" >>,
      << "b", "i", "g", "g", "e", "r" >> }

_OP_GTE ==
    { << ">", "=" >>, << "g", "t", "e" >>, << "a", "t", "l", "e", "a", "s", "t" >>,
      << "m", "i", "n", "i", "m", "u", "m" >> }

_OP_LT ==
    { << "l", "e", "s", "s" >>, << "f", "e", "w", "e", "r" >>, << "b", "e", "l", "o", "w" >>,
      << "u", "n", "d", "e", "r" >>, << "l", "o", "w", "e", "r" >>, << "<" >>,
      << "b", "e", "f", "o", "r", "e" >>, << "s", "m", "a", "l", "l", "e", "r" >> }

_OP_LTE ==
    { << "<", "=" >>, << "l", "t", "e" >>, << "a", "t", "m", "o", "s", "t" >>,
      << "m", "a", "x", "i", "m", "u", "m" >> }

_SUPERLATIVE_DESC ==
    { << "b", "e", "s", "t" >>, << "t", "o", "p" >>, << "h", "i", "g", "h", "e", "s", "t" >>,
      << "m", "o", "s", "t" >>, << "b", "i", "g", "g", "e", "s", "t" >>,
      << "l", "a", "r", "g", "e", "s", "t" >>, << "g", "r", "e", "a", "t", "e", "s", "t" >>,
      << "f", "a", "s", "t", "e", "s", "t" >>, << "n", "e", "w", "e", "s", "t" >>,
      << "l", "a", "t", "e", "s", "t" >>, << "b", "u", "s", "i", "e", "s", "t" >>,
      << "m", "a", "x", "i", "m", "u", "m" >>, << "r", "i", "c", "h", "e", "s", "t" >> }

_SUPERLATIVE_ASC ==
    { << "w", "o", "r", "s", "t" >>, << "b", "o", "t", "t", "o", "m" >>,
      << "l", "o", "w", "e", "s", "t" >>, << "l", "e", "a", "s", "t" >>,
      << "s", "m", "a", "l", "l", "e", "s", "t" >>, << "f", "e", "w", "e", "s", "t" >>,
      << "s", "l", "o", "w", "e", "s", "t" >>, << "o", "l", "d", "e", "s", "t" >>,
      << "e", "a", "r", "l", "i", "e", "s", "t" >>,
      << "c", "h", "e", "a", "p", "e", "s", "t" >>, << "p", "o", "o", "r", "e", "s", "t" >>,
      << "m", "i", "n", "i", "m", "u", "m" >> }

AggregationWords_count ==
    { << "c", "o", "u", "n", "t" >>, << "n", "u", "m", "b", "e", "r" >>,
      << "m", "a", "n", "y" >> }

AggregationWords_avg ==
    { << "a", "v", "e", "r", "a", "g", "e" >>, << "a", "v", "g" >>, << "m", "e", "a", "n" >> }

AggregationWords_sum ==
    { << "s", "u", "m" >>, << "t", "o", "t", "a", "l" >> }

AggregationWords_max ==
    { << "m", "a", "x" >>, << "m", "a", "x", "i", "m", "u", "m" >>,
      << "h", "i", "g", "h", "e", "s", "t" >> }

AggregationWords_min ==
    { << "m", "i", "n" >>, << "m", "i", "n", "i", "m", "u", "m" >>,
      << "l", "o", "w", "e", "s", "t" >> }

\* the words the parser compares with
w_1 == << "1" >>

w_2 == << "2" >>

w_3 == << "3" >>

w_30 == << "3", "0" >>

w_3000 == << "3", "0", "0", "0" >>

w_5 == << "5" >>

w_6 == << "6" >>

w_99999999999 == << "9", "9", "9", "9", "9", "9", "9", "9", "9", "9", "9" >>

w_a == << "a" >>

w_above == << "a", "b", "o", "v", "e" >>

w_address == << "a", "d", "d", "r", "e", "s", "s" >>

w_age == << "a", "g", "e" >>

w_agent == << "a", "g", "e", "n", "t" >>

w_alice == << "a", "l", "i", "c", "e" >>

w_all == << "a", "l", "l" >>

w_amount == << "a", "m", "o", "u", "n", "t" >>

w_an == << "a", "n" >>

w_and == << "a", "n", "d" >>

w_at == << "a", "t" >>

w_average == << "a", "v", "e", "r", "a", "g", "e" >>

w_below == << "b", "e", "l", "o", "w" >>

w_between == << "b", "e", "t", "w", "e", "e", "n" >>

w_bob == << "b", "o", "b" >>

w_branch == << "b", "r", "a", "n", "c", "h" >>

w_by == << "b", "y" >>

w_cheapest == << "c", "h", "e", "a", "p", "e", "s", "t" >>

w_city == << "c", "i", "t", "y" >>

w_contact == << "c", "o", "n", "t", "a", "c", "t" >>

w_contains == << "c", "o", "n", "t", "a", "i", "n", "s" >>

w_cost == << "c", "o", "s", "t" >>

w_count == << "c", "o", "u", "n", "t" >>

w_country == << "c", "o", "u", "n", "t", "r", "y" >>

w_created == << "c", "r", "e", "a", "t", "e", "d" >>

w_created_at == << "c", "r", "e", "a", "t", "e", "d", "_", "a", "t" >>

w_customer == << "c", "u", "s", "t", "o", "m", "e", "r" >>

w_date == << "d", "a", "t", "e" >>

w_days == << "d", "a", "y", "s" >>

w_desc == << "d", "e", "s", "c" >>

w_descending == << "d", "e", "s", "c", "e", "n", "d", "i", "n", "g" >>

w_did == << "d", "i", "d" >>

w_display == << "d", "i", "s", "p", "l", "a", "y" >>

w_docs == << "d", "o", "c", "s" >>

w_documents == << "d", "o", "c", "u", "m", "e", "n", "t", "s" >>

w_down == << "d", "o", "w", "n" >>

w_earning == << "e", "a", "r", "n", "i", "n", "g" >>

w_employee == << "e", "m", "p", "l", "o", "y", "e", "e" >>

w_ended == << "e", "n", "d", "e", "d" >>

w_equal == << "e", "q", "u", "a", "l" >>

w_equals == << "e", "q", "u", "a", "l", "s" >>

w_fee == << "f", "e", "e" >>

w_find == << "f", "i", "n", "d" >>

w_first == << "f", "i", "r", "s", "t" >>

w_foo == << "f", "o", "o" >>

w_for == << "f", "o", "r" >>

w_from == << "f", "r", "o", "m" >>

w_get == << "g", "e", "t" >>

w_give == << "g", "i", "v", "e" >>

w_greater == << "g", "r", "e", "a", "t", "e", "r" >>

w_had == << "h", "a", "d" >>

w_has == << "h", "a", "s" >>

w_have == << "h", "a", "v", "e" >>

w_having == << "h", "a", "v", "i", "n", "g" >>

w_hello == << "h", "e", "l", "l", "o" >>

w_hired == << "h", "i", "r", "e", "d" >>

w_hours == << "h", "o", "u", "r", "s" >>

w_how == << "h", "o", "w" >>

w_if == << "i", "f" >>

w_income == << "i", "n", "c", "o", "m", "e" >>

w_infk == << "i", "n", "f", "k" >>

w_is == << "i", "s" >>

w_joined == << "j", "o", "i", "n", "e", "d" >>

w_less == << "l", "e", "s", "s" >>

w_limit == << "l", "i", "m", "i", "t" >>

w_list == << "l", "i", "s", "t" >>

w_location == << "l", "o", "c", "a", "t", "i", "o", "n" >>

w_make == << "m", "a", "k", "e" >>

w_manager == << "m", "a", "n", "a", "g", "e", "r" >>

w_many == << "m", "a", "n", "y" >>

w_money == << "m", "o", "n", "e", "y" >>

w_much == << "m", "u", "c", "h" >>

w_name == << "n", "a", "m", "e" >>

w_not == << "n", "o", "t" >>

w_now == << "n", "o", "w" >>

w_of == << "o", "f" >>

w_office == << "o", "f", "f", "i", "c", "e" >>

w_only == << "o", "n", "l", "y" >>

w_or == << "o", "r" >>

w_order == << "o", "r", "d", "e", "r" >>

w_ordered == << "o", "r", "d", "e", "r", "e", "d" >>

w_orders == << "o", "r", "d", "e", "r", "s" >>

w_over == << "o", "v", "e", "r" >>

w_payment == << "p", "a", "y", "m", "e", "n", "t" >>

w_person == << "p", "e", "r", "s", "o", "n" >>

w_price == << "p", "r", "i", "c", "e" >>

w_profit == << "p", "r", "o", "f", "i", "t" >>

w_records == << "r", "e", "c", "o", "r", "d", "s" >>

w_region == << "r", "e", "g", "i", "o", "n" >>

w_rep == << "r", "e", "p" >>

w_results == << "r", "e", "s", "u", "l", "t", "s" >>

w_retrieve == << "r", "e", "t", "r", "i", "e", "v", "e" >>

w_return == << "r", "e", "t", "u", "r", "n" >>

w_revenue == << "r", "e", "v", "e", "n", "u", "e" >>

w_rows == << "r", "o", "w", "s" >>

w_salary == << "s", "a", "l", "a", "r", "y" >>

w_sales == << "s", "a", "l", "e", "s" >>

w_salesperson == << "s", "a", "l", "e", "s", "p", "e", "r", "s", "o", "n" >>

w_select == << "s", "e", "l", "e", "c", "t" >>

w_show == << "s", "h", "o", "w" >>

w_smith == << "s", "m", "i", "t", "h" >>

w_sort == << "s", "o", "r", "t" >>

w_sorted == << "s", "o", "r", "t", "e", "d" >>

w_spend == << "s", "p", "e", "n", "d" >>

w_staff == << "s", "t", "a", "f", "f" >>

w_started == << "s", "t", "a", "r", "t", "e", "d" >>

w_state == << "s", "t", "a", "t", "e" >>

w_store == << "s", "t", "o", "r", "e" >>

w_tell == << "t", "e", "l", "l" >>

w_than == << "t", "h", "a", "n" >>

w_that == << "t", "h", "a", "t" >>

w_the == << "t", "h", "e" >>

w_things == << "t", "h", "i", "n", "g", "s" >>

w_time == << "t", "i", "m", "e" >>

w_timestamp == << "t", "i", "m", "e", "s", "t", "a", "m", "p" >>

w_to == << "t", "o" >>

w_top == << "t", "o", "p" >>

w_total == << "t", "o", "t", "a", "l" >>

w_under == << "u", "n", "d", "e", "r" >>

w_updated == << "u", "p", "d", "a", "t", "e", "d" >>

w_updated_at == << "u", "p", "d", "a", "t", "e", "d", "_", "a", "t" >>

w_user == << "u", "s", "e", "r" >>

w_users == << "u", "s", "e", "r", "s" >>

w_warehouse == << "w", "a", "r", "e", "h", "o", "u", "s", "e" >>

w_we == << "w", "e" >>

w_what == << "w", "h", "a", "t" >>

w_when == << "w", "h", "e", "n" >>

w_where == << "w", "h", "e", "r", "e" >>

w_which == << "w", "h", "i", "c", "h" >>

w_who == << "w", "h", "o" >>

w_whose == << "w", "h", "o", "s", "e" >>

w_with == << "w", "i", "t", "h" >>

w_years == << "y", "e", "a", "r", "s" >>

w_zip == << "z", "i", "p" >>

(***************************************************************************)
(* parser.py: numbers and temporal expressions                             *)
(***************************************************************************)

\* a Python exception leaving the function, in place of its return value
Raised(exception) == [t |-> exception, v |-> << >>]

IsRaised(value) == value.t \in { "OverflowError", "ValueError" }

\* _CURRENCY_RE.sub("", s): the leading currency and # signs are removed
RECURSIVE StripCurrency(_)
StripCurrency(s) ==
    IF s # << >> /\ s[1] \in { "$", "#" } THEN StripCurrency(Tail(s)) ELSE s

\* s.replace(",", "")
RemoveCommas(s) == SelectSeq(s, LAMBDA c : c # ",")

\* _suffixes, as the number of zeros of the multiplier
SuffixZeros(c) ==
    CASE LowerChar(c) = "k" -> 3
      [] LowerChar(c) = "m" -> 6
      [] LowerChar(c) = "b" -> 9
      [] OTHER -> 0

HasSuffix(s) == s # << >> /\ LowerChar(s[Len(s)]) \in { "k", "m", "b" }

\* float(s) is an infinity
IsInfLiteral(s) ==
    Lower(Unsigned(Strip(s))) \in { << "i", "n", "f" >>,
                                    << "i", "n", "f", "i", "n", "i", "t", "y" >> }

\* float(s) is not-a-number
IsNanLiteral(s) == Lower(Unsigned(Strip(s))) = << "n", "a", "n" >>

Zeros(n) == [i \in 1..n |-> "0"]

\* whole and frac with the point moved right by zeros places, what is left
\* behind it cut off
Shifted(whole, frac, zeros, negative) ==
    (IF negative /\ StripLeadingZeros(whole \o SubSeq(frac \o Zeros(zeros), 1, zeros)) # << "0" >>
     THEN << "-" >> ELSE << >>)
    \o StripLeadingZeros(whole \o SubSeq(frac \o Zeros(zeros), 1, zeros))

\* the digits of int(float(s) * 10^zeros) for a decimal literal
ScaledBody(body, zeros, negative) ==
    IF HasChar(body, ".")
    THEN Shifted(Slice(body, 1, DotAt(body) - 1), Slice(body, DotAt(body) + 1, Len(body)),
                 zeros, negative)
    ELSE Shifted(body, << >>, zeros, negative)

ScaledDigits(s, zeros) == ScaledBody(Unsigned(Strip(s)), zeros, Negative(Strip(s)))

\* float(s) for the texts float() accepts
FloatValue(s) ==
    [t |-> "float",
     v |-> CASE IsInfLiteral(s) -> (IF Negative(Strip(s)) THEN << "-" >> ELSE << >>)
                                    \o << "i", "n", "f" >>
             [] IsNanLiteral(s) -> << "n", "a", "n" >>
             [] OTHER -> FloatDigits(s)]

IsFloatText(s) == IsFloatLiteral(s) \/ IsInfLiteral(s) \/ IsNanLiteral(s)

\* lines 245-251: a k/M/B suffix; int() of an infinity raises OverflowError,
\* which the except ValueError clause lets through
NormalizeSuffixed(raw, body, zeros) ==
    IF IsInfLiteral(body) THEN Raised("OverflowError")
    ELSE IF IsIntLiteral(body) \/ IsFloatLiteral(body)
    THEN [t |-> "int", v |-> ScaledDigits(body, zeros)]
    ELSE StrValue(raw)

\* lines 252-258
NormalizePlain(raw, s) ==
    IF IsIntLiteral(s) THEN [t |-> "int", v |-> IntDigits(s)]
    ELSE IF IsFloatText(s) THEN FloatValue(s)
    ELSE StrValue(raw)

NormalizeStripped(raw, s) ==
    IF s = << >> THEN StrValue(raw)
    ELSE IF HasSuffix(s)
    THEN NormalizeSuffixed(raw, Slice(s, 1, Len(s) - 1), SuffixZeros(s[Len(s)]))
    ELSE NormalizePlain(raw, s)

_normalize_number(raw) == NormalizeStripped(raw, RemoveCommas(StripCurrency(Strip(raw))))

\* isinstance(val, (int, float))
IsNumber(value) == value.t \in { "int", "float" }

\* the value of one decimal digit
DigitValue(c) == (CHOOSE i \in 1..Len(Digits) : Digits[i] = c) - 1

\* the largest number of days a timedelta holds
MaxTimedeltaDays == 999999999

\* what stands for every count of days beyond MaxTimedeltaDays
TooManyDays == 1000000000

\* datetime.min.toordinal() and datetime.max.toordinal()
MinOrdinal == 1

MaxOrdinal == 3652059

MinutesPerDay == 1440

\* int(digits) // divisor and int(digits) % divisor by long division; the
\* quotient stops growing at TooManyDays
RECURSIVE LongDiv(_, _, _, _)
LongDiv(digits, divisor, quotient, remainder) ==
    IF digits = << >> THEN [q |-> quotient, r |-> remainder]
    ELSE LET acc == remainder * 10 + DigitValue(Head(digits))
             grown == IF quotient > MaxTimedeltaDays \div 10 THEN TooManyDays
                      ELSE quotient * 10 + acc \div divisor
         IN  LongDiv(Tail(digits), divisor,
                     IF grown > MaxTimedeltaDays THEN TooManyDays ELSE grown,
                     acc % divisor)

\* count * factor, stopping at TooManyDays
TimesDays(count, factor) ==
    IF count > MaxTimedeltaDays \div factor THEN TooManyDays ELSE count * factor

\* str.rstrip("s")
RECURSIVE RStripS(_)
RStripS(s) ==
    IF s # << >> /\ s[Len(s)] = "s" THEN RStripS(SubSeq(s, 1, Len(s) - 1)) ELSE s

TemporalUnit(word) ==
    LET unit == RStripS(word)
    IN  CASE unit = << "d", "a", "y" >> -> "day"
          [] unit = << "w", "e", "e", "k" >> -> "week"
          [] unit = << "m", "o", "n", "t", "h" >> -> "month"
          [] unit = << "q", "u", "a", "r", "t", "e", "r" >> -> "quarter"
          [] unit = << "y", "e", "a", "r" >> -> "year"
          [] unit = << "h", "o", "u", "r" >> -> "hour"
          [] unit = << "m", "i", "n", "u", "t", "e" >> -> "minute"
          [] OTHER -> "none"

\* lines 287-298: the days and the minutes of the timedelta of |n| units
\* (unit is one of day, week, month, year, hour, minute)
DeltaOf(digits, unit) ==
    LET size == Unsigned(digits)
        whole == LongDiv(size, 1, 0, 0).q
    IN  CASE unit = "day" -> [days |-> whole, minutes |-> 0]
          [] unit = "week" -> [days |-> TimesDays(whole, 7), minutes |-> 0]
          [] unit = "month" -> [days |-> TimesDays(whole, 30), minutes |-> 0]
          [] unit = "year" -> [days |-> TimesDays(whole, 365), minutes |-> 0]
          [] unit = "hour" -> [days |-> LongDiv(size, 24, 0, 0).q,
                               minutes |-> LongDiv(size, 24, 0, 0).r * 60]
          [] unit = "minute" -> [days |-> LongDiv(size, MinutesPerDay, 0, 0).q,
                                 minutes |-> LongDiv(size, MinutesPerDay, 0, 0).r]

\* timedelta(...) raises OverflowError
TimedeltaOverflows(delta) == delta.days > MaxTimedeltaDays

\* a datetime: its proleptic Gregorian ordinal and the minute of its day
\* (the model's clocks stand at whole minutes)
Earlier(dt, delta) ==
    IF dt.minute >= delta.minutes
    THEN [ordinal |-> dt.ordinal - delta.days, minute |-> dt.minute - delta.minutes]
    ELSE [ordinal |-> dt.ordinal - delta.days - 1,
          minute |-> dt.minute - delta.minutes + MinutesPerDay]

Later(dt, delta) ==
    IF dt.minute + delta.minutes < MinutesPerDay
    THEN [ordinal |-> dt.ordinal + delta.days, minute |-> dt.minute + delta.minutes]
    ELSE [ordinal |-> dt.ordinal + delta.days + 1,
          minute |-> dt.minute + delta.minutes - MinutesPerDay]

\* datetime +/- timedelta raises OverflowError ("date value out of range")
OutOfRange(dt) == dt.ordinal < MinOrdinal \/ dt.ordinal > MaxOrdinal

Midnight(dt) == [ordinal |-> dt.ordinal, minute |-> 0]

Days(n) == [days |-> n, minutes |-> 0]

IsLeap(year) == year % 4 = 0 /\ (year % 100 # 0 \/ year % 400 = 0)

DaysInMonth(year, month) ==
    IF month = 2 THEN (IF IsLeap(year) THEN 29 ELSE 28)
    ELSE IF month \in { 4, 6, 9, 11 } THEN 30 ELSE 31

DaysBeforeYear(year) ==
    (year - 1) * 365 + (year - 1) \div 4 - (year - 1) \div 100 + (year - 1) \div 400

RECURSIVE DaysBeforeMonth(_, _)
DaysBeforeMonth(year, month) ==
    IF month = 1 THEN 0
    ELSE DaysBeforeMonth(year, month - 1) + DaysInMonth(year, month - 1)

\* datetime(year, month, day)
DateOf(year, month, day) ==
    [ordinal |-> DaysBeforeYear(year) + DaysBeforeMonth(year, month) + day, minute |-> 0]

\* the year an ordinal falls in
YearOfOrdinal(n) ==
    CHOOSE y \in ((n - 1) \div 366 + 1)..((n - 1) \div 366 + 22) :
        DaysBeforeYear(y) < n /\ n <= DaysBeforeYear(y + 1)

\* the month of the n-th day of a year
MonthOfDay(year, n) ==
    CHOOSE m \in 1..12 :
        DaysBeforeMonth(year, m) < n /\ n <= DaysBeforeMonth(year, m) + DaysInMonth(year, m)

InMonth(year, month, n) ==
    [year |-> year, month |-> month, day |-> n - DaysBeforeMonth(year, month)]

InYear(year, n) == InMonth(year, MonthOfDay(year, n), n)

\* .year, .month and .day of a datetime
Calendar(dt) == InYear(YearOfOrdinal(dt.ordinal), dt.ordinal - DaysBeforeYear(YearOfOrdinal(dt.ordinal)))

\* .weekday(): Monday is 0
Weekday(dt) == (dt.ordinal + 6) % 7

\* "%0*d": the decimal digits of n, zero-padded to width
RECURSIVE Padded(_, _)
Padded(n, width) ==
    IF width = 0 THEN << >> ELSE Padded(n \div 10, width - 1) \o << Digits[(n % 10) + 1] >>

\* "%04d-%02d-%02dT%02d:%02d:00"
IsoText(date, minute) ==
    Padded(date.year, 4) \o << "-" >> \o Padded(date.month, 2) \o << "-" >>
        \o Padded(date.day, 2) \o << "T" >> \o Padded(minute \div 60, 2) \o << ":" >>
        \o Padded(minute % 60, 2) \o << ":", "0", "0" >>

\* datetime.isoformat() of a datetime at a whole minute
isoformat(dt) == IsoText(Calendar(dt), dt.minute)

\* what a temporal expression comes to before its bounds are formatted: the
\* datetimes of the range and the words consumed, no range, or the exception
\* raised
Range(gte, lte, consumed) == [t |-> "range", gte |-> gte, lte |-> lte, consumed |-> consumed]

Nowhere == [ordinal |-> 0, minute |-> 0]

NoRange == [t |-> "None", gte |-> Nowhere, lte |-> Nowhere, consumed |-> 0]

RangeRaises(exception) == [t |-> exception, gte |-> Nowhere, lte |-> Nowhere, consumed |-> 0]

\* a range one of whose bounds the datetime arithmetic cannot reach raises
\* OverflowError ("date value out of range")
Within(range) ==
    IF range.t = "range" /\ (OutOfRange(range.gte) \/ OutOfRange(range.lte))
    THEN RangeRaises("OverflowError")
    ELSE range

\* the (date_range_dict, words_consumed) returned
DateRange(range) ==
    IF range.t # "range"
    THEN [t |-> range.t, gte |-> << >>, lte |-> << >>, consumed |-> 0]
    ELSE [t |-> "range", gte |-> isoformat(range.gte), lte |-> isoformat(range.lte),
          consumed |-> range.consumed]

Word(words, i) == IF i \in 1..Len(words) THEN words[i] ELSE << >>

w_today == << "t", "o", "d", "a", "y" >>

w_yesterday == << "y", "e", "s", "t", "e", "r", "d", "a", "y" >>

w_tomorrow == << "t", "o", "m", "o", "r", "r", "o", "w" >>

w_last == << "l", "a", "s", "t" >>

w_past == << "p", "a", "s", "t" >>

w_previous == << "p", "r", "e", "v", "i", "o", "u", "s" >>

w_this == << "t", "h", "i", "s" >>

w_current == << "c", "u", "r", "r", "e", "n", "t" >>

w_next == << "n", "e", "x", "t" >>

_TEMPORAL_MODIFIERS == { w_last, w_this, w_next, w_past, w_previous, w_current }

Backward(w) == w \in { w_last, w_past, w_previous }

Ongoing(w) == w \in { w_this, w_current }

\* lines 271-280
DayRange(shifted) ==
    IF OutOfRange(shifted) THEN RangeRaises("OverflowError")
    ELSE Range(Midnight(shifted), Later(Midnight(shifted), Days(1)), 1)

SingleWordRange(w, now) ==
    DayRange(CASE w = w_today -> now
               [] w = w_yesterday -> Earlier(now, Days(1))
               [] w = w_tomorrow -> Later(now, Days(1)))

\* lines 299-308: the range of a delta back from now or on from now
Moved(now, delta, onward) == IF onward THEN Later(now, delta) ELSE Earlier(now, delta)

DeltaRange(w, now, delta, negative) ==
    IF TimedeltaOverflows(delta) THEN RangeRaises("OverflowError")
    ELSE IF delta = Days(0) THEN NoRange
    ELSE IF w = w_next THEN Range(now, Moved(now, delta, ~negative), 3)
    ELSE Range(Moved(now, delta, negative), now, 3)

\* lines 284-309: modifier, count, unit; a count int() refuses, a unit that
\* is none and a zero delta all leave this form without a result
UnitRange(w, count, unit, now) ==
    IF ~IsIntLiteral(count) \/ unit \in { "none", "quarter" } THEN NoRange
    ELSE DeltaRange(w, now, DeltaOf(IntDigits(count), unit), Negative(IntDigits(count)))

CountedRange(w, count, unit_word, now) == UnitRange(w, count, TemporalUnit(unit_word), now)

\* the first day of the month after the one of date
NextMonth(date) ==
    IF date.month = 12 THEN DateOf(date.year + 1, 1, 1)
    ELSE DateOf(date.year, date.month + 1, 1)

\* a midnight before which now - timedelta must first be reached
Back(now, days, start) ==
    IF OutOfRange(Earlier(now, Days(days))) THEN RangeRaises("OverflowError")
    ELSE start

\* datetime(year, 1, 1) raises ValueError outside the years 1 to 9999
Years(first, last, range) ==
    IF first < 1 \/ last > 9999 THEN RangeRaises("ValueError") ELSE range

\* lines 313-358: modifier and unit without a count
CalendarRange(w, unit, now, date) ==
    CASE unit = "week" /\ Backward(w) ->
             Back(now, 7, Range(Midnight(Earlier(now, Days(7))), now, 2))
      [] unit = "week" /\ Ongoing(w) ->
             Back(now, Weekday(now),
                  Range(Midnight(Earlier(now, Days(Weekday(now)))), now, 2))
      [] unit = "week" /\ w = w_next -> Range(now, Later(now, Days(7)), 2)
      [] unit = "month" /\ Backward(w) ->
             Back(now, date.day,
                  Range(DateOf(IF date.month = 1 THEN date.year - 1 ELSE date.year,
                               IF date.month = 1 THEN 12 ELSE date.month - 1, 1),
                        DateOf(date.year, date.month, 1), 2))
      [] unit = "month" /\ Ongoing(w) -> Range(DateOf(date.year, date.month, 1), now, 2)
      [] unit = "month" /\ w = w_next ->
             Years(date.year, IF date.month >= 11 THEN date.year + 1 ELSE date.year,
                   Range(NextMonth(date), NextMonth(Calendar(NextMonth(date))), 2))
      [] unit = "quarter" /\ Backward(w) -> Range(Earlier(now, Days(90)), now, 2)
      [] unit = "quarter" /\ Ongoing(w) ->
             Range(DateOf(date.year, ((date.month - 1) \div 3) * 3 + 1, 1), now, 2)
      [] unit = "year" /\ Backward(w) ->
             Years(date.year - 1, date.year,
                   Range(DateOf(date.year - 1, 1, 1), DateOf(date.year, 1, 1), 2))
      [] unit = "year" /\ Ongoing(w) -> Range(DateOf(date.year, 1, 1), now, 2)
      [] unit = "year" /\ w = w_next ->
             Years(date.year + 1, date.year + 2,
                   Range(DateOf(date.year + 1, 1, 1), DateOf(date.year + 2, 1, 1), 2))
      [] OTHER -> NoRange

UncountedRange(w, unit_word, now) ==
    CalendarRange(w, TemporalUnit(unit_word), now, Calendar(now))

\* the counted form where there is one, else the uncounted form
Modified(counted, words, start, now) ==
    IF counted.t # "None" THEN counted
    ELSE IF start + 1 <= Len(words) THEN UncountedRange(words[start], words[start + 1], now)
    ELSE NoRange

TemporalRange(words, start, now) ==
    IF start > Len(words) THEN NoRange
    ELSE IF words[start] \in { w_today, w_yesterday, w_tomorrow }
    THEN SingleWordRange(words[start], now)
    ELSE IF words[start] \notin _TEMPORAL_MODIFIERS THEN NoRange
    ELSE Modified(IF start + 2 <= Len(words)
                  THEN CountedRange(words[start], words[start + 1], words[start + 2], now)
                  ELSE NoRange,
                  words, start, now)

_build_temporal_range(words, start, now) == DateRange(Within(TemporalRange(words, start, now)))

(***************************************************************************)
(* parser.py: matching words against the catalog                           *)
(***************************************************************************)

\* x in a list
InSeq(x, s) == \E i \in 1..Len(s) : s[i] = x

\* h in s for two str
IsSubstring(h, s) ==
    \E i \in 0..(Len(s) - Len(h)) : Slice(s, i + 1, i + Len(h)) = h

EndsWith(s, suffix) ==
    Len(s) >= Len(suffix) /\ SubSeq(s, Len(s) - Len(suffix) + 1, Len(s)) = suffix

_normalize_singular(word) ==
    LET w == Lower(word)
    IN  IF EndsWith(w, << "i", "e", "s" >>) /\ Len(w) > 3
        THEN SubSeq(w, 1, Len(w) - 3) \o << "y" >>
        ELSE IF \/ EndsWith(w, << "s", "e", "s" >>)
                \/ EndsWith(w, << "x", "e", "s" >>)
                \/ EndsWith(w, << "z", "e", "s" >>)
        THEN SubSeq(w, 1, Len(w) - 2)
        ELSE IF EndsWith(w, << "s" >>) /\ ~EndsWith(w, << "s", "s" >>) /\ Len(w) > 2
        THEN SubSeq(w, 1, Len(w) - 1)
        ELSE w

\* a or, where that is None, b
OrElse(a, b) == IF a # None THEN a ELSE b

\* the entry of fields at the least of the positions, None without one
AtLeast(fields, positions) ==
    IF positions = { } THEN None ELSE fields[MinOf(positions)]

\* the first entry of fields that satisfies Test, None without one
FirstField(fields, Test(_)) == AtLeast(fields, { i \in 1..Len(fields) : Test(fields[i]) })

\* step 3 of _find_field_match: segment by segment, up to singular forms
SegmentsAgree(us, fs) ==
    /\ Len(us) = Len(fs)
    /\ \A i \in 1..Len(us) : _normalize_singular(us[i]) = _normalize_singular(fs[i])

\* step 5: the text a field is compared by
Leaf(field) == Lower(LastSegment(field))

\* the first position with the highest score (score > best_score is
\* strict), 0 when every score is 0
Best(score) ==
    IF \A i \in DOMAIN score : score[i][1] = 0 THEN 0
    ELSE CHOOSE i \in DOMAIN score : \A j \in DOMAIN score :
             \/ FracGt(score[i], score[j])
             \/ ~FracGt(score[j], score[i]) /\ i <= j

Scored(fields, score, best) ==
    IF best # 0 /\ FracGeq(score[best], Cutoff80) THEN fields[best] ELSE None

BestScored(fields, score) == Scored(fields, score, Best(score))

\* step 5: the field most similar to the word, when that reaches 0.80
FuzzyField(wl, fields) ==
    BestScored(fields, [i \in 1..Len(fields) |-> Ratio(wl, Leaf(fields[i]))])

\* steps 1 to 5 on the lowered word
MatchLowered(wl, fields) ==
    OrElse(FirstField(fields, LAMBDA f : Lower(f) = wl),
    OrElse(FirstField(fields, LAMBDA f : IsDotted(f) /\ Leaf(f) = wl),
    OrElse(FirstField(fields, LAMBDA f :
               /\ IsDotted(wl)
               /\ IsDotted(f)
               /\ SegmentsAgree(SplitDots(wl), SplitDots(Lower(f)))),
    OrElse(FirstField(fields, LAMBDA f :
               _normalize_singular(Leaf(f)) = _normalize_singular(wl)),
           FuzzyField(wl, fields)))))

_find_field_match(word, fields) == MatchLowered(Lower(word), fields)

\* the dotted fields that words[start_idx:] spell segment by segment
Spells(words, start_idx, segments) ==
    /\ start_idx + Len(segments) - 1 <= Len(words)
    /\ SegmentsAgree(SubSeq(words, start_idx, start_idx + Len(segments) - 1), segments)

SpelledAt(words, start_idx, field) ==
    IsDotted(field) /\ Spells(words, start_idx, SplitDots(Lower(field)))

\* the first of the entries with the most segments
Longest(fields, positions) ==
    IF positions = { } THEN None
    ELSE fields[CHOOSE i \in positions : \A j \in positions :
                  \/ Len(SplitDots(fields[i])) > Len(SplitDots(fields[j]))
                  \/ Len(SplitDots(fields[i])) = Len(SplitDots(fields[j])) /\ i <= j]

\* the first of the fields with the most segments among those spelled
_find_multi_word_field(words, start_idx, fields) ==
    Longest(fields, { i \in 1..Len(fields) : SpelledAt(words, start_idx, fields[i]) })

(***************************************************************************)
(* parser.py: conditions                                                   *)
(***************************************************************************)

\* s[n:] of a list
Drop(s, n) == IF n >= Len(s) THEN << >> ELSE SubSeq(s, n + 1, Len(s))

\* " ".join(parts)
RECURSIVE JoinWords(_)
JoinWords(parts) ==
    IF parts = << >> THEN << >>
    ELSE IF Len(parts) = 1 THEN parts[1]
    ELSE parts[1] \o << " " >> \o JoinWords(Tail(parts))

\* ".".join(parts)
RECURSIVE JoinDots(_)
JoinDots(parts) ==
    IF Len(parts) = 1 THEN parts[1]
    ELSE parts[1] \o << "." >> \o JoinDots(Tail(parts))

\* len(val.split()) of a value without blanks at its ends
CountWords(s) == IF s = << >> THEN 0 ELSE Cardinality({ i \in 1..Len(s) : s[i] = " " }) + 1

Conjunctions == { w_and, << "," >>, << "&" >> }

\* what _extract_condition returns: a condition dict (a "between" carries
\* its upper bound in high), NoCondition for None, and a condition whose
\* operator is an exception's name for that exception raised while a value
\* was being read
Extracted(field, operator, value, high) ==
    [field |-> field, operator |-> operator, value |-> value, high |-> high]

NoCondition == Extracted(None, "None", StrValue(<< >>), StrValue(<< >>))

MakeCondition(field, operator, value) ==
    IF IsRaised(value) THEN Extracted(field, value.t, StrValue(<< >>), StrValue(<< >>))
    ELSE Extracted(field, operator, value, StrValue(<< >>))

IsCondition(cond) == cond.operator \notin { "None", "OverflowError" }

CondRaised(cond) == cond.operator = "OverflowError"

\* lines 762-769
ParsedOr(raw, number) ==
    IF IsNumber(number) \/ IsRaised(number) THEN number ELSE StrValue(raw)

_parse_value(raw) == ParsedOr(raw, _normalize_number(raw))

\* a field name stands at position i of rest
FieldAt(rest, i, allowed_fields) ==
    /\ i <= Len(rest)
    /\ \/ _find_field_match(rest[i], allowed_fields) # None
       \/ _find_multi_word_field(rest, i, allowed_fields) # None

\* lines 786-811: the word at position i ends the value
Stops(rest, i, parts, field_next) ==
    \/ rest[i] \in _CLAUSE_BREAKS
    \/ rest[i] \in _CONDITION_TRIGGERS /\ (i = Len(rest) \/ field_next)
    \/ rest[i] \in Conjunctions /\ (field_next \/ parts = << >>)

Capture(parts, next) == [parts |-> parts, next |-> next]

\* lines 783-813: the loop of _capture_multi_word_value from position i on
RECURSIVE CaptureWords(_, _, _, _)
CaptureWords(rest, i, parts, allowed_fields) ==
    IF i > Len(rest) \/ Stops(rest, i, parts, FieldAt(rest, i + 1, allowed_fields))
    THEN Capture(parts, i)
    ELSE CaptureWords(rest, i + 1, Append(parts, rest[i]), allowed_fields)

\* lines 821-823: matched quotes around the value are taken off
Unquote(s) ==
    IF Len(s) >= 2 /\ s[1] = s[Len(s)] /\ s[1] \in { "'", "\"" }
    THEN Slice(s, 2, Len(s) - 1)
    ELSE s

\* lines 815-832: the value of the captured words
CapturedValue(captured, start) ==
    IF captured.parts = << >> THEN [value |-> [t |-> "None", v |-> << >>], consumed |-> 0]
    ELSE [value |-> _parse_value(Unquote(JoinWords(captured.parts))),
          consumed |-> captured.next - start]

\* the (value, words_consumed) of _capture_multi_word_value; value.t is
\* "None" when no word was captured
_capture_multi_word_value(rest, start, allowed_fields) ==
    CapturedValue(CaptureWords(rest, start, << >>, allowed_fields), start)

\* lines 862-868: the negation before an operator
IsNot(rest_words) ==
    Len(rest_words) >= 2 /\ rest_words[1] \in _OP_EQ /\ rest_words[2] = w_not

Negated(rest_words) ==
    IsNot(rest_words) \/ rest_words[1] = w_not \/ rest_words[1] \in _OP_NEQ

EffectiveRest(rest_words) ==
    IF IsNot(rest_words) THEN Drop(rest_words, 2)
    ELSE IF Negated(rest_words) THEN Drop(rest_words, 1)
    ELSE rest_words

\* a or, where that is no condition, b
OrCondition(a, b) == IF a # NoCondition THEN a ELSE b

\* lines 884-892: the bounds are read low first
Bounds(field, lo, hi) ==
    IF IsRaised(lo) THEN MakeCondition(field, "between", lo)
    ELSE IF IsRaised(hi) THEN MakeCondition(field, "between", hi)
    ELSE Extracted(field, "between", lo, hi)

\* lines 872-892: "between X and Y"
BetweenCondition(field, rest) ==
    IF Word(rest, 1) = w_between /\ Len(rest) >= 4
    THEN Bounds(field, _parse_value(rest[2]),
                _parse_value(rest[IF rest[3] \in { w_and, w_to } THEN 4 ELSE 3]))
    ELSE NoCondition

\* lines 911-922: "is" followed by a comparison word hands over to it
Comparisons == _OP_GT \cup _OP_GTE \cup _OP_LT \cup _OP_LTE

Redirects(rest) == Len(rest) >= 2 /\ rest[1] \in _OP_EQ /\ rest[2] \in Comparisons

\* the operator a value is compared by and the position the value stands at
Plan(operator, position) == [operator |-> operator, position |-> position]

NoPlan == Plan("None", 0)

\* lines 937-949 and 957-970: after "greater"/"less", an optional "than" or
\* "to", then an optional "or equal to", then the value
Skip(rest) == IF Len(rest) > 1 /\ rest[2] \in { w_than, w_to } THEN 2 ELSE 1

OrEqual(rest, skip) ==
    /\ Len(rest) > skip + 2
    /\ rest[skip + 1] \in { w_or, w_equal, w_equals }
    /\ rest[skip + 2] \in { w_equal, w_to, w_equals }

ComparisonPlan(rest, skip, strict, inclusive) ==
    IF OrEqual(rest, skip) THEN Plan(inclusive, skip + 3)
    ELSE IF Len(rest) > skip THEN Plan(strict, skip + 1)
    ELSE NoPlan

\* lines 951-955 and 972-976
BoundPlan(rest, operator) == IF Len(rest) > 1 THEN Plan(operator, 2) ELSE NoPlan

ComparedPlan(rest, op_word) ==
    CASE op_word \in _OP_GT -> ComparisonPlan(rest, Skip(rest), "gt", "gte")
      [] op_word \in _OP_GTE -> BoundPlan(rest, "gte")
      [] op_word \in _OP_LT -> ComparisonPlan(rest, Skip(rest), "lt", "lte")
      [] op_word \in _OP_LTE -> BoundPlan(rest, "lte")
      [] OTHER -> NoPlan

ComparisonCondition(field, rest, plan) ==
    IF plan = NoPlan THEN NoCondition
    ELSE MakeCondition(field, plan.operator, _parse_value(rest[plan.position]))

Equality(negated) == IF negated THEN "ne" ELSE "eq"

\* lines 978-1001: a field followed directly by its value
ImplicitOf(field, op_word, negated, numeric, number, captured) ==
    IF numeric /\ (IsNumber(number) \/ IsRaised(number))
    THEN MakeCondition(field, Equality(negated), number)
    ELSE IF /\ op_word \notin _NOISE \cup _CLAUSE_BREAKS \cup _CONDITION_TRIGGERS
                               \cup Conjunctions
            /\ captured.value.t # "None"
            /\ captured.consumed > 0
    THEN MakeCondition(field, Equality(negated), captured.value)
    ELSE NoCondition

ImplicitCondition(field, rest_words, op_word, negated, allowed_fields, numeric_fields) ==
    ImplicitOf(field, op_word, negated, InSeq(field, numeric_fields),
               _normalize_number(rest_words[1]),
               _capture_multi_word_value(rest_words, 1, allowed_fields))

\* lines 937-1001: the comparison operators, then the implicit forms
AfterEquality(field, rest_words, rest, negated, allowed_fields, numeric_fields) ==
    OrCondition(ComparisonCondition(field, rest, ComparedPlan(rest, Word(rest, 1))),
                ImplicitCondition(field, rest_words, Word(rest, 1), negated,
                                  allowed_fields, numeric_fields))

\* lines 894-909 and 923-932: the operator of a condition whose value is
\* the words after the operator word
ValueOperator(rest, negated) ==
    IF Len(rest) < 2 THEN "None"
    ELSE IF rest[1] \in _OP_CONTAINS THEN "contains"
    ELSE IF rest[1] \in _OP_EQ /\ ~Redirects(rest) THEN Equality(negated)
    ELSE "None"

CapturedCondition(field, operator, captured) ==
    IF captured.value.t = "None" THEN NoCondition
    ELSE MakeCondition(field, operator, captured.value)

ValueCondition(field, operator, rest, allowed_fields) ==
    IF operator = "None" THEN NoCondition
    ELSE CapturedCondition(field, operator,
                           _capture_multi_word_value(rest, 2, allowed_fields))

\* lines 870-1001 for a field that was found
ExtractAfter(field, rest_words, effective_rest, negated, allowed_fields, numeric_fields) ==
    OrCondition(BetweenCondition(field, effective_rest),
    OrCondition(ValueCondition(field, ValueOperator(effective_rest, negated),
                               effective_rest, allowed_fields),
                AfterEquality(field, rest_words,
                              IF Redirects(effective_rest) THEN Tail(effective_rest)
                              ELSE effective_rest,
                              negated, allowed_fields, numeric_fields)))

ExtractFor(field, rest_words, allowed_fields, numeric_fields) ==
    IF field = None \/ rest_words = << >> THEN NoCondition
    ELSE ExtractAfter(field, rest_words, EffectiveRest(rest_words), Negated(rest_words),
                      allowed_fields, numeric_fields)

_extract_condition(field_word, rest_words, allowed_fields, numeric_fields) ==
    ExtractFor(_find_field_match(field_word, allowed_fields), rest_words,
               allowed_fields, numeric_fields)

\* lines 1005-1014: how many words a condition is taken to have used up
_count_condition_words(cond) ==
    IF ~IsCondition(cond) THEN 0
    ELSE IF cond.operator = "between" THEN 5
    ELSE IF cond.value.t = "str" THEN 2 + CountWords(cond.value.v)
    ELSE 3

\* c["field"] == field for some condition
HasField(conditions, field) == \E i \in 1..Len(conditions) : conditions[i].field = field

\* a slip: the parser's own "between" is handed on as it is
Expanded_KeepsBetween(cond) ==
    << Condition(cond.field, cond.operator, cond.value) >>

\* the append of every site that takes a condition in: "between" becomes
\* gte and lte
Expanded(cond) ==
    IF cond.operator = "between"
    THEN << Condition(cond.field, "gte", cond.value), Condition(cond.field, "lte", cond.high) >>
    ELSE << Condition(cond.field, cond.operator, cond.value) >>
\* the conditions gathered so far, or the exception that ended the parse
Gathered(conditions) == [conditions |-> conditions, raised |-> FALSE]

Aborted == [conditions |-> << >>, raised |-> TRUE]

\* a catalog as parse_to_ir receives it
ParseCatalog(allowed_fields, numeric_fields) ==
    [allowed_fields |-> allowed_fields, numeric_fields |-> numeric_fields]

ScanFillers == Conjunctions \cup { w_the, w_a, w_an, w_has, w_have, w_had }

DotJoinStops == _OP_EQ \cup Conjunctions \cup _OP_GT \cup _OP_LT \cup { w_than }

\* lines 1072-1076: the widths whose words after the first hold no operator
\* word
DotJoinWidths(words, i) ==
    { k \in 2..Min(4, Len(words) - i + 1) :
        \A j \in (i + 1)..(i + k - 1) : words[j] \notin DotJoinStops }

\* a condition the scan takes in: extracted, and on a field without one yet
Takes(conditions, cond) == IsCondition(cond) /\ ~HasField(conditions, cond.field)

\* one call of _extract_condition the scan makes at a position: on the
\* field word, with the words from the position on of which width are the
\* field's; after the last one the scan moves on whatever came of it
Attempt(field_word, width, last) == [field_word |-> field_word, width |-> width, last |-> last]

\* lines 1072-1078: the dot-joined candidates, the widest first
DotJoinAttempts(words, i, widths) ==
    [n \in 1..Len(widths) |->
        Attempt(JoinDots(SubSeq(words, i, i + widths[n] - 1)), widths[n], FALSE)]

\* lines 1046-1078: a field spelled as consecutive words is tried alone;
\* otherwise the word itself, then the dot-joined candidates
AttemptsWith(words, i, mw) ==
    IF mw # None THEN << Attempt(mw, Len(SplitDots(mw)), TRUE) >>
    ELSE << Attempt(words[i], 1, FALSE) >>
         \o DotJoinAttempts(words, i, SelectSeq(<< 4, 3, 2 >>,
                                               LAMBDA k : k \in DotJoinWidths(words, i)))

Attempts(words, i, catalog) ==
    AttemptsWith(words, i, _find_multi_word_field(words, i, catalog.allowed_fields))

\* where _scan_conditions_from stands: at position i, with tried of the
\* attempts of that position made; done when the loop was left
Scan(i, tried, conditions) ==
    [i |-> i, tried |-> tried, conditions |-> conditions, done |-> FALSE, raised |-> FALSE]

ScanEnded(scan) == [scan EXCEPT !.done = TRUE]

ScanAborted(scan) == [scan EXCEPT !.done = TRUE, !.raised = TRUE]

\* lines 1049-1058, 1060-1068 and 1078-1087: what an attempt comes to
Attempted(scan, attempt, cond) ==
    IF CondRaised(cond) THEN ScanAborted(scan)
    ELSE IF Takes(scan.conditions, cond)
    THEN Scan(scan.i + attempt.width + _count_condition_words(cond), 0,
              scan.conditions \o Expanded(cond))
    ELSE IF attempt.last
    THEN Scan(scan.i + attempt.width + _count_condition_words(cond), 0, scan.conditions)
    ELSE [scan EXCEPT !.tried = @ + 1]

\* lines 1091-1094: after the attempts, a clause break ends the scan
ScanWith(words, scan, attempts, catalog) ==
    IF scan.tried >= Len(attempts)
    THEN IF words[scan.i] \in _CLAUSE_BREAKS THEN ScanEnded(scan)
         ELSE Scan(scan.i + 1, 0, scan.conditions)
    ELSE Attempted(scan, attempts[scan.tried + 1],
                   _extract_condition(attempts[scan.tried + 1].field_word,
                                      Drop(words, scan.i + attempts[scan.tried + 1].width - 1),
                                      catalog.allowed_fields, catalog.numeric_fields))

\* lines 1039-1094: one step of the loop
ScanStep(words, scan, catalog) ==
    IF scan.i > Len(words) THEN ScanEnded(scan)
    ELSE IF words[scan.i] \in ScanFillers THEN Scan(scan.i + 1, 0, scan.conditions)
    ELSE ScanWith(words, scan, Attempts(words, scan.i, catalog), catalog)

RECURSIVE ScanLoop(_, _, _)
ScanLoop(words, scan, catalog) ==
    IF scan.done THEN scan ELSE ScanLoop(words, ScanStep(words, scan, catalog), catalog)

ScanResult(scan) == IF scan.raised THEN Aborted ELSE Gathered(scan.conditions)

\* lines 1036-1094: _scan_conditions_from, from position i on
ScanFrom(words, i, conditions, catalog) ==
    ScanResult(ScanLoop(words, Scan(i, 0, conditions), catalog))

\* lines 1096-1110: the scan after the first occurrence of each trigger the
\* text holds, in the order of _all_triggers
IndexOf(words, w) == MinOf({ i \in 1..Len(words) : words[i] = w })

RECURSIVE ScanTriggers(_, _, _, _)
ScanTriggers(triggers, words, gathered, catalog) ==
    IF triggers = << >> \/ gathered.raised THEN gathered
    ELSE ScanTriggers(Tail(triggers), words,
                      IF InSeq(Head(triggers), words)
                      THEN ScanFrom(words, IndexOf(words, Head(triggers)) + 1,
                                    gathered.conditions, catalog)
                      ELSE gathered,
                      catalog)

\* _all_triggers for one iteration order of the set _CONDITION_TRIGGERS
AllTriggers(trigger_order) ==
    << w_where >> \o SelectSeq(trigger_order, LAMBDA t : t # w_where) \o << w_for, w_of >>

\* the conditions of section 2 and the positions it used up
MultiWord(conditions, raised, consumed) ==
    [conditions |-> conditions, raised |-> raised, consumed |-> consumed]

\* lines 1123-1130
MultiWordTaken(multi, mi, op_pos, mw, cond) ==
    IF CondRaised(cond) THEN MultiWord(<< >>, TRUE, multi.consumed)
    ELSE IF IsCondition(cond) /\ ~HasField(multi.conditions, mw)
    THEN MultiWord(multi.conditions \o Expanded(cond), FALSE,
                   multi.consumed \cup (mi..(op_pos + _count_condition_words(cond) - 1)))
    ELSE multi

MultiWordFound(words, mi, multi, mw, catalog) ==
    IF mw = None THEN multi
    ELSE MultiWordTaken(multi, mi, mi + Len(SplitDots(mw)), mw,
                        _extract_condition(mw, Drop(words, mi + Len(SplitDots(mw)) - 1),
                                           catalog.allowed_fields, catalog.numeric_fields))

\* lines 1115-1130: one position of the loop
MultiWordStep(words, mi, multi, catalog) ==
    IF mi \in multi.consumed \/ words[mi] \in _NOISE THEN multi
    ELSE MultiWordFound(words, mi, multi,
                        _find_multi_word_field(words, mi, catalog.allowed_fields), catalog)

\* lines 1112-1130: a dotted field spelled as consecutive words
RECURSIVE ScanMultiWord(_, _, _, _)
ScanMultiWord(words, mi, multi, catalog) ==
    IF mi > Len(words) \/ multi.raised THEN multi
    ELSE ScanMultiWord(words, mi + 1, MultiWordStep(words, mi, multi, catalog), catalog)

\* lines 1132-1153: a field name in the text followed by its value; of a
\* dotted field the full path is looked for first, then the last segment
MatchWord(field, words) ==
    IF InSeq(Lower(field), words) THEN Lower(field)
    ELSE IF IsDotted(field) /\ InSeq(Leaf(field), words) THEN Leaf(field)
    ELSE None

\* lines 1146-1152
ImplicitTaken(field, gathered, cond) ==
    IF CondRaised(cond) THEN Aborted
    ELSE IF IsCondition(cond) /\ ~HasField(gathered.conditions, field)
    THEN Gathered(gathered.conditions \o Expanded([cond EXCEPT !.field = field]))
    ELSE gathered

\* lines 1140-1145
ImplicitAt(field, words, consumed, gathered, mw, catalog) ==
    IF mw = None \/ IndexOf(words, mw) \in consumed THEN gathered
    ELSE ImplicitTaken(field, gathered,
                       _extract_condition(mw, Drop(words, IndexOf(words, mw)),
                                          catalog.allowed_fields, catalog.numeric_fields))

RECURSIVE ScanImplicit(_, _, _, _, _)
ScanImplicit(fields, words, consumed, gathered, catalog) ==
    IF fields = << >> \/ gathered.raised THEN gathered
    ELSE ScanImplicit(Tail(fields), words, consumed,
                      ImplicitAt(Head(fields), words, consumed, gathered,
                                 MatchWord(Head(fields), words), catalog),
                      catalog)
(***************************************************************************)
(* parser.py: parse_to_ir                                                  *)
(***************************************************************************)

\* lines 1163-1171: the first numeric field the text names, by its full
\* path or by its last segment
ReferencedNumeric(words, numeric_fields) ==
    FirstField(numeric_fields, LAMBDA f : InSeq(Lower(f), words) \/ InSeq(Leaf(f), words))

\* lines 1172-1175
AgeLike(numeric_fields) ==
    FirstField(numeric_fields, LAMBDA f :
        Lower(f) = w_age \/ EndsWith(Lower(f), << "." >> \o w_age))

\* numeric_fields[0], None of an empty list
FirstNumeric(numeric_fields) ==
    IF numeric_fields # << >> THEN numeric_fields[1] ELSE None

ThanTarget(words, numeric_fields) ==
    OrElse(ReferencedNumeric(words, numeric_fields),
           OrElse(AgeLike(numeric_fields), FirstNumeric(numeric_fields)))

BareTarget(words, numeric_fields) ==
    OrElse(ReferencedNumeric(words, numeric_fields), FirstNumeric(numeric_fields))

HasBound(conditions, field, operators) ==
    \E i \in 1..Len(conditions) :
        conditions[i].field = field /\ conditions[i].operator \in operators

\* the operators that bound a field from the side operator does
SameSide(operator) == IF operator = "gt" THEN { "gt", "gte" } ELSE { "lt", "lte" }

InferredOf(gathered, val, target, operator) ==
    IF gathered.raised \/ IsRaised(val) THEN Aborted
    ELSE IF /\ IsNumber(val)
            /\ target # None
            /\ ~HasBound(gathered.conditions, target, SameSide(operator))
    THEN Gathered(Append(gathered.conditions, Condition(target, operator, val)))
    ELSE gathered

\* one inferred comparison: the number after the comparison word, on the
\* target field unless that has such a bound already
Inferred(gathered, raw, target, operator) ==
    InferredOf(gathered, _normalize_number(raw), target, operator)

\* lines 1159-1160 and 1185-1186: the comparison word at position i
ThanOperator(words, i) ==
    IF ~(i + 2 <= Len(words) /\ words[i + 1] = w_than) THEN "None"
    ELSE IF words[i] \in COMPARISON_GT THEN "gt"
    ELSE IF words[i] \in COMPARISON_LT THEN "lt"
    ELSE "None"

ThanAt(words, i, gathered, operator, numeric_fields) ==
    IF operator = "None" THEN gathered
    ELSE Inferred(gathered, words[i + 2], ThanTarget(words, numeric_fields), operator)

\* lines 1157-1206: "greater than N" / "less than N" with the field inferred.
\* When the number after a COMPARISON_GT word is none the loop goes on to the
\* next word at once.
RECURSIVE ScanThan(_, _, _, _)
ScanThan(words, i, gathered, numeric_fields) ==
    IF i > Len(words) \/ gathered.raised THEN gathered
    ELSE ScanThan(words, i + 1,
                  ThanAt(words, i, gathered, ThanOperator(words, i), numeric_fields),
                  numeric_fields)

\* lines 1210-1211 and 1227-1228
BareOperator(words, i) ==
    IF ~(i + 1 <= Len(words) /\ words[i + 1] # w_than) THEN "None"
    ELSE IF words[i] \in { w_over, w_above } THEN "gt"
    ELSE IF words[i] \in { w_under, w_below } THEN "lt"
    ELSE "None"

BareAt(words, i, gathered, operator, numeric_fields) ==
    IF operator = "None" THEN gathered
    ELSE Inferred(gathered, words[i + 1], BareTarget(words, numeric_fields), operator)

\* lines 1208-1243: "over N" / "under N" without "than"
RECURSIVE ScanBare(_, _, _, _)
ScanBare(words, i, gathered, numeric_fields) ==
    IF i > Len(words) \/ gathered.raised THEN gathered
    ELSE ScanBare(words, i + 1,
                  BareAt(words, i, gathered, BareOperator(words, i), numeric_fields),
                  numeric_fields)

\* lines 1250-1254: the words the loop passes over
OrphanSkipped(words, oi) ==
    \/ words[oi] \in _NOISE \cup _CLAUSE_BREAKS
    \/ (oi > 1 /\ words[oi - 1] \in { w_top, w_first, w_limit })

NumberRead(val) == IsNumber(val) \/ IsRaised(val)

\* the first position from oi on that _normalize_number is called on and
\* gives either a number or an exception, 0 without one
RECURSIVE OrphanPosition(_, _)
OrphanPosition(words, oi) ==
    IF oi > Len(words) THEN 0
    ELSE IF ~OrphanSkipped(words, oi) /\ NumberRead(_normalize_number(words[oi])) THEN oi
    ELSE OrphanPosition(words, oi + 1)

OrphanTaken(conditions, val, target) ==
    IF IsRaised(val) THEN Aborted
    ELSE IF target # None THEN Gathered(Append(conditions, Condition(target, "eq", val)))
    ELSE Gathered(conditions)

\* lines 1245-1265: the first number no scan used goes to the first numeric
\* field without a condition
ScanOrphan(words, position, conditions, numeric_fields) ==
    IF position = 0 THEN Gathered(conditions)
    ELSE OrphanTaken(conditions, _normalize_number(words[position]),
                     FirstField(numeric_fields, LAMBDA nf : ~HasField(conditions, nf)))

OrphanNumbers(words, gathered, numeric_fields) ==
    IF gathered.raised THEN gathered
    ELSE IF \/ \E i \in 1..Len(gathered.conditions) :
                  InSeq(gathered.conditions[i].field, numeric_fields)
            \/ numeric_fields = << >>
    THEN gathered
    ELSE ScanOrphan(words, OrphanPosition(words, 1), gathered.conditions, numeric_fields)

\* lines 1276-1278
_date_hints ==
    << w_date, w_time, w_created, w_updated, w_timestamp, w_hired, w_joined, w_started,
       w_ended, w_at, w_created_at, w_updated_at, w_ordered >>

DateField(allowed_fields) ==
    FirstField(allowed_fields, LAMBDA f :
        \E h \in 1..Len(_date_hints) : IsSubstring(_date_hints[h], Lower(f)))

TemporalWords == { w_today, w_yesterday, w_tomorrow, w_now } \cup _TEMPORAL_MODIFIERS

\* lines 1284-1296: the bounds of the range go to the date field, each
\* unless the field has that bound already
WithBound(conditions, field, operator, value) ==
    IF HasBound(conditions, field, { operator }) THEN conditions
    ELSE Append(conditions, Condition(field, operator, StrValue(value)))

WithRange(conditions, field, range) ==
    WithBound(WithBound(conditions, field, "gte", range.gte), field, "lte", range.lte)

\* a or, where that is no range, b
OrRange(a, b) == IF a.t # "None" THEN a ELSE b

\* lines 1271-1275: the first temporal expression from ti on that gives a
\* range or raises
RECURSIVE FirstRange(_, _, _)
FirstRange(words, ti, now) ==
    IF ti > Len(words) THEN DateRange(NoRange)
    ELSE OrRange(IF words[ti] \in TemporalWords THEN _build_temporal_range(words, ti, now)
                 ELSE DateRange(NoRange),
                 FirstRange(words, ti + 1, now))

RangeTaken(conditions, range, field) ==
    IF range.t \in { "OverflowError", "ValueError" } THEN Aborted
    ELSE IF range.t = "None" \/ field = None THEN Gathered(conditions)
    ELSE Gathered(WithRange(conditions, field, range))

\* lines 1267-1297
ScanTemporal(words, ti, conditions, allowed_fields, now) ==
    RangeTaken(conditions, FirstRange(words, ti, now), DateField(allowed_fields))

Temporal(words, gathered, allowed_fields, now) ==
    IF gathered.raised THEN gathered
    ELSE ScanTemporal(words, 1, gathered.conditions, allowed_fields, now)
\* lines 616-658: what the text asks to compute. "how much" settles on sum
\* whatever the catalog holds; an aggregation keyword other than a count
\* needs a numeric field.
_revenue_hints ==
    << w_revenue, w_sales, w_amount, w_price, w_total, w_cost, w_money, w_income,
       w_salary, w_payment, w_profit, w_spend, w_earning, w_fee >>

RevenueField(numeric_fields) ==
    FirstField(numeric_fields, LAMBDA f :
        \E h \in 1..Len(_revenue_hints) : IsSubstring(_revenue_hints[h], Lower(f)))

AGGREGATION_KEYWORDS(word) ==
    CASE word \in AggregationWords_count -> "count"
      [] word \in AggregationWords_avg -> "avg"
      [] word \in AggregationWords_sum -> "sum"
      [] word \in AggregationWords_max -> "max"
      [] word \in AggregationWords_min -> "min"
      [] OTHER -> "None"

Aggregation(type, field) == << [type |-> type, field |-> field] >>

\* the (operation, aggregation) the detection leaves
Detected(operation, aggregation) == [operation |-> operation, aggregation |-> aggregation]

KeywordDetected(agg_type, target) ==
    IF agg_type = "count" THEN Detected("aggregate", Aggregation("count", None))
    ELSE IF target # None THEN Detected("aggregate", Aggregation(agg_type, target))
    ELSE Detected("aggregate", << >>)

KeywordAggregation(word, words, numeric_fields) ==
    KeywordDetected(AGGREGATION_KEYWORDS(word), BareTarget(words, numeric_fields))

AggregationAt(words, keywords, numeric_fields) ==
    IF keywords # { }
    THEN KeywordAggregation(words[MinOf(keywords)], words, numeric_fields)
    ELSE Detected("find", << >>)

DetectAggregation(words, numeric_fields) ==
    IF InSeq(w_how, words) /\ InSeq(w_many, words)
    THEN Detected("aggregate", Aggregation("count", None))
    ELSE IF InSeq(w_how, words) /\ InSeq(w_much, words)
    THEN Detected("aggregate",
                  Aggregation("sum", OrElse(RevenueField(numeric_fields),
                                            FirstNumeric(numeric_fields))))
    ELSE AggregationAt(words,
                       { i \in 1..Len(words) : AGGREGATION_KEYWORDS(words[i]) # "None" },
                       numeric_fields)

\* a field named at a position and the words its name takes
Named(field, width) == [field |-> field, width |-> width]

\* lines 527-545: the word as a field, else the words as a dotted field
NamedOf(match, mw) ==
    IF match # None THEN Named(match, 1)
    ELSE IF mw # None THEN Named(mw, Len(SplitDots(mw)))
    ELSE Named(None, 0)

NamedAt(words, i, allowed_fields) ==
    NamedOf(_find_field_match(words[i], allowed_fields),
            _find_multi_word_field(words, i, allowed_fields))

\* where the loop after a projection keyword stands
Projecting(i, projection, done) == [i |-> i, projection |-> projection, done |-> done]

\* lines 527-551: a named field is added once; a word that names none ends
\* the loop
ProjectNamed(state, named) ==
    IF named.field = None THEN Projecting(state.i, state.projection, TRUE)
    ELSE Projecting(state.i + named.width,
                    IF InSeq(named.field, state.projection) THEN state.projection
                    ELSE Append(state.projection, named.field),
                    FALSE)

ProjectStep(words, state, allowed_fields) ==
    IF state.i > Len(words) THEN Projecting(state.i, state.projection, TRUE)
    ELSE IF words[state.i] \in Conjunctions \cup _PROJECTION_FILLER
    THEN Projecting(state.i + 1, state.projection, FALSE)
    ELSE ProjectNamed(state, NamedAt(words, state.i, allowed_fields))

RECURSIVE ProjectLoop(_, _, _)
ProjectLoop(words, state, allowed_fields) ==
    IF state.done THEN state
    ELSE ProjectLoop(words, ProjectStep(words, state, allowed_fields), allowed_fields)

\* lines 519-551: the fields named after one projection keyword, added to
\* those found so far
ProjectFrom(words, i, projection, allowed_fields) ==
    ProjectLoop(words, Projecting(i, projection, FALSE), allowed_fields).projection

\* lines 517-551: for trigger in PROJECTION_KEYWORDS, in the order the set
\* is iterated
RECURSIVE ProjectTriggers(_, _, _, _)
ProjectTriggers(triggers, words, projection, allowed_fields) ==
    IF triggers = << >> THEN projection
    ELSE ProjectTriggers(Tail(triggers), words,
                         IF InSeq(Head(triggers), words)
                         THEN ProjectFrom(words, IndexOf(words, Head(triggers)) + 1,
                                          projection, allowed_fields)
                         ELSE projection,
                         allowed_fields)

\* lines 553-557: a projection of every field is none
Partial(projection, allowed_fields) ==
    IF projection # << >> /\ Len(projection) < Len(allowed_fields)
    THEN << projection >>
    ELSE << >>

\* the projection, << >> for None
_detect_projection(words, allowed_fields, keyword_order) ==
    Partial(ProjectTriggers(keyword_order, words, << >>, allowed_fields), allowed_fields)

\* int(s) of a literal of at most nine digits
IntOf(s) ==
    IF Negative(IntDigits(s)) THEN 0 - LongDiv(Unsigned(IntDigits(s)), 1, 0, 0).q
    ELSE LongDiv(IntDigits(s), 1, 0, 0).q

SortBy(field, direction) == << [field |-> field, direction |-> direction] >>

\* sort and limit as the later sections leave them, or the exception raised
Ordering(sort, limit) == [sort |-> sort, limit |-> limit, raised |-> FALSE]

OrderingAborted == [sort |-> << >>, limit |-> << >>, raised |-> TRUE]

\* lines 1306-1336: what a superlative at position si comes to; later is
\* what the rest of the loop comes to
SuperlativeAt(words, si, limit, catalog, direction, sup_n, after, next_field, later) ==
    IF si + 1 <= Len(words) /\ IsRaised(sup_n) THEN OrderingAborted
    ELSE IF /\ si + 1 <= Len(words)
            /\ sup_n.t = "int"
            /\ ~Negative(sup_n.v)
            /\ sup_n.v # << "0" >>
    THEN Ordering(IF after # None THEN SortBy(after, direction)
                  ELSE IF catalog.numeric_fields # << >>
                  THEN SortBy(catalog.numeric_fields[1], direction)
                  ELSE << >>,
                  IF limit = << >> THEN << IntOf(sup_n.v) >> ELSE limit)
    ELSE IF si + 1 <= Len(words) /\ next_field # None
    THEN Ordering(SortBy(next_field, direction), IF limit = << >> THEN << 1 >> ELSE limit)
    ELSE IF catalog.numeric_fields # << >>
    THEN Ordering(SortBy(catalog.numeric_fields[1], direction),
                  IF limit = << >> THEN << 1 >> ELSE limit)
    ELSE later

\* lines 1302-1338: a superlative sets the sort and, without one, the limit
RECURSIVE ScanSuperlative(_, _, _, _)
ScanSuperlative(words, si, limit, catalog) ==
    IF si > Len(words) THEN Ordering(<< >>, limit)
    ELSE IF words[si] \notin _SUPERLATIVE_DESC \cup _SUPERLATIVE_ASC
    THEN ScanSuperlative(words, si + 1, limit, catalog)
    ELSE SuperlativeAt(words, si, limit, catalog,
                       IF words[si] \in _SUPERLATIVE_DESC THEN "desc" ELSE "asc",
                       _normalize_number(Word(words, si + 1)),
                       IF si + 2 <= Len(words)
                       THEN _find_field_match(words[si + 2], catalog.allowed_fields)
                       ELSE None,
                       _find_field_match(Word(words, si + 1), catalog.allowed_fields),
                       ScanSuperlative(words, si + 1, limit, catalog))

\* lines 1340-1358: a question word projects the fields its hints name
_QUESTION_FIELD_HINTS ==
    << [word |-> w_who,
        hints |-> << w_name, w_employee, w_person, w_user, w_customer, w_salesperson,
                     w_rep, w_agent, w_staff, w_manager, w_contact >>],
       [word |-> w_when,
        hints |-> << w_date, w_time, w_created, w_updated, w_hired, w_joined, w_timestamp,
                     w_created_at, w_updated_at >>],
       [word |-> w_where,
        hints |-> << w_city, w_location, w_address, w_region, w_state, w_country,
                     w_office, w_branch, w_store, w_warehouse >>] >>

\* the inferred fields with found, when there is one
WithFound(inferred, found) == IF found # None THEN Append(inferred, found) ELSE inferred

\* one field per hint: the first that holds it, unless inferred already
RECURSIVE InferFields(_, _, _)
InferFields(hints, inferred, allowed_fields) ==
    IF hints = << >> THEN inferred
    ELSE InferFields(Tail(hints),
                     WithFound(inferred,
                               FirstField(allowed_fields, LAMBDA f :
                                   /\ IsSubstring(Head(hints), Lower(f))
                                   /\ ~InSeq(f, inferred))),
                     allowed_fields)

\* a or, where that is none, b
OrLater(a, b) == IF a # << >> THEN a ELSE b

\* lines 1349-1358: the fields a question word stands for
Asked(question, words, inferred, allowed_fields) ==
    IF /\ InSeq(question.word, words)
       /\ inferred # << >>
       /\ Len(inferred) < Len(allowed_fields)
    THEN << inferred >>
    ELSE << >>

RECURSIVE QuestionProjection(_, _, _)
QuestionProjection(questions, words, allowed_fields) ==
    IF questions = << >> THEN << >>
    ELSE OrLater(Asked(Head(questions), words,
                       InferFields(Head(questions).hints, << >>, allowed_fields),
                       allowed_fields),
                 QuestionProjection(Tail(questions), words, allowed_fields))
\* lines 1362-1371: "sorted by <field>"; the last one in the text stands
SortedBy(words, i, match) ==
    IF match # None
    THEN SortBy(match, IF i + 3 <= Len(words)
                          /\ words[i + 3] \in { w_descending, w_desc, w_down }
                       THEN "desc" ELSE "asc")
    ELSE << >>

SortAt(words, i, allowed_fields) ==
    IF /\ words[i] \in { w_sorted, w_sort, w_order, w_ordered }
       /\ i + 2 <= Len(words)
       /\ words[i + 1] = w_by
    THEN SortedBy(words, i, _find_field_match(words[i + 2], allowed_fields))
    ELSE << >>

TopBy(match) == IF match # None THEN SortBy(match, "desc") ELSE << >>

TopByAmong(words, i, bys, allowed_fields) ==
    IF words[i] \in { w_top, w_first } /\ i + 1 <= Len(words) /\ bys # { }
    THEN TopBy(_find_field_match(words[MinOf(bys) + 1], allowed_fields))
    ELSE << >>

\* lines 1374-1384: "top N by <field>": the first "by" among the three
\* words after the number, when a word follows it
TopByAt(words, i, allowed_fields) ==
    TopByAmong(words, i,
               { j \in (i + 2)..Min(i + 4, Len(words)) :
                   words[j] = w_by /\ j + 1 <= Len(words) },
               allowed_fields)

\* the value a loop over the words leaves in a variable that At(i) assigns
\* wherever it is not << >>
RECURSIVE LastAssigned(_, _, _)
LastAssigned(At(_), i, initial) ==
    IF i = 0 THEN initial
    ELSE OrLater(At(i), LastAssigned(At, i - 1, initial))

ExplicitSort(words, sort, allowed_fields) ==
    OrLater(LastAssigned(LAMBDA i : SortAt(words, i, allowed_fields), Len(words), sort),
            LastAssigned(LAMBDA i : TopByAt(words, i, allowed_fields), Len(words), << >>))

\* lines 1388-1402: "limit N", "top N", "first N" and "N results"
LimitAt(words, i) ==
    IF /\ IsIntLiteral(words[i])
       /\ i + 1 <= Len(words)
       /\ words[i + 1] \in { w_results, w_records, w_documents, w_docs, w_rows }
    THEN << IntOf(words[i]) >>
    ELSE IF /\ words[i] \in { w_limit, w_top, w_first }
            /\ i + 1 <= Len(words)
            /\ IsIntLiteral(words[i + 1])
    THEN << IntOf(words[i + 1]) >>
    ELSE << >>

ExplicitLimit(words, limit) == LastAssigned(LAMBDA i : LimitAt(words, i), Len(words), limit)

\* line 1417: the cap of a show-all find
ShowAllLimit == 20

\* lines 1404-1430: the final decision, << >> for None
HasShow(words) == \E i \in 1..Len(words) : words[i] \in SHOW_KEYWORDS

Decide(words, operation, conditions, aggregation, sort, limit, projection) ==
    IF operation = "aggregate" /\ aggregation = << >> THEN << >>
    ELSE IF /\ conditions = << >>
            /\ operation = "find"
            /\ ~(HasShow(words) \/ limit # << >> \/ sort # << >>)
    THEN << >>
    ELSE << WithMeta([operation |-> operation,
                      conditions |-> conditions,
                      aggregation |-> aggregation,
                      sort |-> sort,
                      limit |-> IF limit = << >> /\ operation = "find" /\ conditions = << >>
                                THEN << ShowAllLimit >> ELSE limit,
                      projection |-> projection],
                     RuleMeta(IF conditions # << >> \/ aggregation # << >>
                              THEN "0.9" ELSE "0.6")) >>

\* what a call of parse_to_ir comes to: the IR in a one-element list, << >>
\* for None, or the exception that leaves it
Returned(result) == [raised |-> FALSE, ir |-> result]

ParseRaised == [raised |-> TRUE, ir |-> << >>]

\* lines 1096-1297: the conditions of the text, section after section
Conditions(multi) == [conditions |-> multi.conditions, raised |-> multi.raised]

Implicit(words, multi, catalog) ==
    ScanImplicit(catalog.allowed_fields, words, multi.consumed, Conditions(multi), catalog)

Triggered(words, catalog, hash_order) ==
    ScanTriggers(AllTriggers(hash_order.triggers), words, Gathered(<< >>), catalog)

Filters(words, catalog, now, triggered) ==
    Temporal(words,
             OrphanNumbers(words,
                 ScanBare(words, 1,
                     ScanThan(words, 1,
                         Implicit(words,
                                  ScanMultiWord(words, 1,
                                                MultiWord(triggered.conditions,
                                                          triggered.raised, { }),
                                                catalog),
                                  catalog),
                         catalog.numeric_fields),
                     catalog.numeric_fields),
                 catalog.numeric_fields),
             catalog.allowed_fields, now)

\* lines 660-663 and 1340-1358: the projection the text names, else the one
\* its question word stands for
Projected(words, allowed_fields, projection) ==
    IF projection # << >> THEN projection
    ELSE QuestionProjection(_QUESTION_FIELD_HINTS, words, allowed_fields)

Projection(words, catalog, operation, hash_order) ==
    IF operation # "find" THEN << >>
    ELSE Projected(words, catalog.allowed_fields,
                   _detect_projection(words, catalog.allowed_fields, hash_order.projection))

Assembled(words, catalog, hash_order, detected, filters, superlative) ==
    IF filters.raised \/ superlative.raised THEN ParseRaised
    ELSE Returned(Decide(words, detected.operation, filters.conditions,
                         detected.aggregation,
                         ExplicitSort(words, superlative.sort, catalog.allowed_fields),
                         ExplicitLimit(words, superlative.limit),
                         Projection(words, catalog, detected.operation, hash_order)))

\* parse_to_ir on a cleaned, lower-cased text split into words (one without
\* the word "in" and without array literals, so that lines 667-758 add
\* nothing); now is what datetime.now() returns during the call, and
\* hash_order the orders in which this process iterates the keyword sets
parse_to_ir(words, catalog, now, hash_order) ==
    Assembled(words, catalog, hash_order,
              DetectAggregation(words, catalog.numeric_fields),
              Filters(words, catalog, now, Triggered(words, catalog, hash_order)),
              ScanSuperlative(words, 1, << >>, catalog))
(***************************************************************************)
(* ir_compiler.py: the match stage and the aggregation pipeline            *)
(***************************************************************************)

HexLetters == { "a", "b", "c", "d", "e", "f", "A", "B", "C", "D", "E", "F" }

\* _OBJECTID_RE.match(value), for a value without a newline
IsObjectIdText(s) == Len(s) = 24 /\ \A i \in 1..Len(s) : IsDigit(s[i]) \/ s[i] \in HexLetters

\* ObjectId(value)
ObjectIdValue(s) == [t |-> "ObjectId", v |-> Lower(s)]

\* the characters re.escape puts a backslash before (control characters
\* apart)
_special_chars ==
    { "(", ")", "[", "]", "{", "}", "?", "*", "+", "-", "|", "^", "$", "\\", ".", "&",
      "~", "#", " " }

\* re.escape(value)
RECURSIVE re_escape(_)
re_escape(s) ==
    IF s = << >> THEN << >>
    ELSE (IF s[1] \in _special_chars THEN << "\\", s[1] >> ELSE << s[1] >>)
         \o re_escape(Tail(s))

\* {"$regex": pattern, "$options": "i"}
Regex(pattern) == [t |-> "$regex", v |-> pattern, options |-> "i"]

\* lines 82-88
_case_insensitive_eq(value) ==
    IF value.t = "str" THEN Regex(<< "^" >> \o re_escape(value.v) \o << "$" >>) ELSE value

\* lines 91-97
_case_insensitive_contains(value) ==
    IF value.t = "str" THEN Regex(re_escape(value.v)) ELSE value

\* {operator: value}, as in {"$gt": value}
Operator(operator, value) == [t |-> operator, v |-> value]

\* {"$gte": day_start, "$lte": day_end}
Between(lower, upper) == [t |-> "$gte$lte", v |-> << lower, upper >>]

\* a filter document: {field: expr}, {"$or": clauses}, {"$and": clauses}
\* or {}
Match(field, expr) == [kind |-> "match", field |-> field, expr |-> << expr >>, clauses |-> << >>]

Junction(kind, clauses) == [kind |-> kind, field |-> None, expr |-> << >>, clauses |-> clauses]

EmptyFilter == Junction("{}", << >>)

\* a datetime value
DateTime(year, month, day, hour, minute, second, microsecond) ==
    [t |-> "datetime",
     v |-> [year |-> year, month |-> month, day |-> day, hour |-> hour,
            minute |-> minute, second |-> second, microsecond |-> microsecond]]

\* the formats of _DATE_FORMATS without a month's name, a directive or one
\* character of text each
_DATE_FORMATS ==
    << << "%Y", "-", "%m", "-", "%d", "T", "%H", ":", "%M", ":", "%S", ".", "%f", "Z" >>,
       << "%Y", "-", "%m", "-", "%d", "T", "%H", ":", "%M", ":", "%S", "Z" >>,
       << "%Y", "-", "%m", "-", "%d", "T", "%H", ":", "%M", ":", "%S", ".", "%f" >>,
       << "%Y", "-", "%m", "-", "%d", "T", "%H", ":", "%M", ":", "%S" >>,
       << "%Y", "-", "%m", "-", "%d", " ", "%H", ":", "%M", ":", "%S" >>,
       << "%Y", "-", "%m", "-", "%d" >>,
       << "%m", "/", "%d", "/", "%Y" >>,
       << "%d", "/", "%m", "/", "%Y" >>,
       << "%d", "-", "%m", "-", "%Y" >>,
       << "%Y" >> >>

Directives == { "%Y", "%m", "%d", "%H", "%M", "%S", "%f" }

\* how many digits text begins with
RECURSIVE LeadingDigits(_)
LeadingDigits(text) ==
    IF text = << >> \/ ~IsDigit(text[1]) THEN 0 ELSE 1 + LeadingDigits(Tail(text))

RECURSIVE LeadingBlanks(_)
LeadingBlanks(text) ==
    IF text = << >> \/ text[1] # " " THEN 0 ELSE 1 + LeadingBlanks(Tail(text))

\* the number a run of at most six digits writes
RECURSIVE Natural(_)
Natural(digits) ==
    IF digits = << >> THEN 0
    ELSE 10 * Natural(SubSeq(digits, 1, Len(digits) - 1)) + DigitValue(digits[Len(digits)])

\* the digits of %f stand for a fraction of a second: "5" is 500000
RECURSIVE Micros(_, _)
Micros(n, width) == IF width >= 6 THEN n ELSE Micros(10 * n, width + 1)

\* what strptime accepts for a directive: so many digits, in this range
FieldFits(directive, width, n) ==
    CASE directive = "%Y" -> width = 4
      [] directive = "%m" -> width \in 1..2 /\ n \in 1..12
      [] directive = "%d" -> width \in 1..2 /\ n \in 1..31
      [] directive = "%H" -> width \in 1..2 /\ n \in 0..23
      [] directive = "%M" -> width \in 1..2 /\ n \in 0..59
      [] directive = "%S" -> width \in 1..2 /\ n \in 0..61
      [] directive = "%f" -> width \in 1..6

FieldValue(directive, width, n) == IF directive = "%f" THEN Micros(n, width) ELSE n

\* the fields strptime starts from
Epoch ==
    [d \in Directives |-> IF d = "%Y" THEN 1900 ELSE IF d \in { "%m", "%d" } THEN 1 ELSE 0]

NoFields == << >>

\* the text begins with what the head of the format stands for, so many
\* characters wide: a directive's digits, one or more blanks for a blank,
\* the character itself (whatever its case) otherwise
HeadWidth(text, token) ==
    IF token \in Directives THEN LeadingDigits(text)
    ELSE IF token = " " THEN LeadingBlanks(text)
    ELSE IF text # << >> /\ LowerChar(text[1]) = LowerChar(token) THEN 1
    ELSE 0

HeadFits(text, token, width) ==
    IF token \in Directives
    THEN width <= 6 /\ FieldFits(token, width, Natural(SubSeq(text, 1, width)))
    ELSE width > 0

WithField(fields, text, token, width) ==
    IF token \in Directives
    THEN [fields EXCEPT ![token] = FieldValue(token, width, Natural(SubSeq(text, 1, width)))]
    ELSE fields

\* the regular expression strptime makes of a format, matched against the
\* whole text: the fields read, NoFields when the text does not match
RECURSIVE Matched(_, _, _)
Matched(text, format, fields) ==
    IF format = << >> THEN (IF text = << >> THEN fields ELSE NoFields)
    ELSE IF ~HeadFits(text, Head(format), HeadWidth(text, Head(format))) THEN NoFields
    ELSE Matched(Drop(text, HeadWidth(text, Head(format))), Tail(format),
                 WithField(fields, text, Head(format), HeadWidth(text, Head(format))))

\* datetime(...) of the fields read: the date has to exist, and no minute has
\* more than 60 seconds
Constructed(fields) ==
    IF fields = NoFields THEN << >>
    ELSE IF \/ fields["%Y"] < 1
            \/ fields["%d"] > DaysInMonth(fields["%Y"], fields["%m"])
            \/ fields["%S"] > 59
    THEN << >>
    ELSE << DateTime(fields["%Y"], fields["%m"], fields["%d"], fields["%H"],
                     fields["%M"], fields["%S"], fields["%f"]) >>

\* datetime.strptime(val, fmt), << >> for ValueError
strptime(val, format) == Constructed(Matched(val, format, Epoch))

\* lines 67-72: the first format that reads the text
RECURSIVE FirstParsed(_, _)
FirstParsed(val, formats) ==
    IF formats = << >> THEN << >>
    ELSE OrLater(strptime(val, Head(formats)), FirstParsed(val, Tail(formats)))

ParsedOrGiven(value, parsed) == IF parsed # << >> THEN parsed[1] ELSE value

\* the number a value of type int or float holds lies in 1000..9999
PlausibleYear(value) ==
    /\ ~Negative(value.v)
    /\ LeadingDigits(value.v) = 4
    /\ value.v[1] # "0"

\* lines 51-72 (a text that begins with a month's name apart)
_parse_date_value(value) ==
    IF value.t \in { "int", "float" }
    THEN IF PlausibleYear(value)
         THEN DateTime(Natural(SubSeq(value.v, 1, 4)), 1, 1, 0, 0, 0, 0)
         ELSE value
    ELSE IF value.t # "str" THEN value
    ELSE ParsedOrGiven(value, FirstParsed(Strip(value.v), _DATE_FORMATS))

\* str(value) of a str, an int or a float
StrOf(value) == value.v

\* lines 121-126: float(str_val) is taken when the text is digits around one
\* dot, after at most one minus sign, and the number is not whole
HasFraction(s) ==
    /\ ~HasChar(s, " ")
    /\ ~HasChar(s, "+")
    /\ IsFloatLiteral(s)
    /\ StripTrailingZeros(Slice(Unsigned(s), DotAt(Unsigned(s)) + 1, Len(Unsigned(s))))
           # << "0" >>

\* lines 108-130: the candidates, in the order they are appended
Candidates(str_val) ==
    << Match(s__id, StrValue(str_val)) >>
    \o (IF IsIntLiteral(str_val)
        THEN << Match(s__id, [t |-> "int", v |-> IntDigits(str_val)]) >> ELSE << >>)
    \o (IF HasFraction(str_val)
        THEN << Match(s__id, [t |-> "float", v |-> FloatDigits(str_val)]) >> ELSE << >>)
    \o (IF IsObjectIdText(str_val)
        THEN << Match(s__id, ObjectIdValue(str_val)) >> ELSE << >>)

\* lines 132-134
Unwrapped(candidates) ==
    IF Len(candidates) = 1 THEN candidates[1] ELSE Junction("$or", candidates)

\* lines 100-134
_build_id_filter(value) == Unwrapped(Candidates(StrOf(value)))

_PARTIAL_MATCH_TYPES == { "array_of_strings", "array_mixed" }

\* lines 137-174
_build_eq_filter(field, value, field_types) ==
    IF value.t = "list" THEN Match(field, value)
    ELSE IF field = s__id THEN _build_id_filter(value)
    ELSE IF TypeOf(field_types, field) \in _PARTIAL_MATCH_TYPES
    THEN Match(field, _case_insensitive_contains(value))
    ELSE IF value.t = "str" /\ IsObjectIdText(value.v)
    THEN Match(field, ObjectIdValue(value.v))
    ELSE Match(field, _case_insensitive_eq(value))

_DATE_TYPES == { "date" }

\* line 211: value.replace(hour=23, minute=59, second=59,
\* microsecond=999999)
DayEnd(value) ==
    [value EXCEPT !.v.hour = 23, !.v.minute = 59, !.v.second = 59, !.v.microsecond = 999999]

\* lines 209-214 and 224-229: a datetime at 00:00:00 matches its whole day
DayOrInstant(field, value) ==
    IF value.v.hour = 0 /\ value.v.minute = 0 /\ value.v.second = 0
    THEN Match(field, Between(value, DayEnd(value)))
    ELSE Match(field, value)

\* bool(value)
Truth(value) ==
    CASE value.t = "bool" -> value.v
      [] value.t = "str" -> value.v # << >>
      [] value.t = "int" -> value.v # << "0" >>
      [] OTHER -> TRUE

\* lines 198-203
Converted(value, ftype, operator) ==
    IF ftype \in _DATE_TYPES /\ operator # "exists"
    THEN IF value.t = "list"
         THEN [value EXCEPT !.v = [i \in 1..Len(value.v) |-> _parse_date_value(value.v[i])]]
         ELSE _parse_date_value(value)
    ELSE value

\* lines 205-245: what a condition adds to and_conditions
Clause(field, operator, value, ftype, field_types) ==
    CASE operator = "eq" ->
             IF ftype \in _DATE_TYPES /\ value.t = "datetime"
             THEN << DayOrInstant(field, value) >>
             ELSE << _build_eq_filter(field, value, field_types) >>
      [] operator = "contains" ->
             IF value.t = "str" /\ IsObjectIdText(value.v)
             THEN << Match(field, ObjectIdValue(value.v)) >>
             ELSE IF ftype \in _DATE_TYPES /\ value.t = "datetime"
             THEN << DayOrInstant(field, value) >>
             ELSE << Match(field, _case_insensitive_contains(value)) >>
      [] operator = "gt" -> << Match(field, Operator("$gt", value)) >>
      [] operator = "gte" -> << Match(field, Operator("$gte", value)) >>
      [] operator = "lt" -> << Match(field, Operator("$lt", value)) >>
      [] operator = "lte" -> << Match(field, Operator("$lte", value)) >>
      [] operator = "ne" -> << Match(field, Operator("$ne", value)) >>
      [] operator = "in" ->
             << Match(field, Operator("$in", IF value.t = "list" THEN value.v
                                             ELSE << value >>)) >>
      [] operator = "exists" -> << Match(field, Operator("$exists", Truth(value))) >>
      [] OTHER -> << >>

ClauseOf(condition, ftype, field_types) ==
    Clause(condition.field, condition.operator,
           Converted(condition.value, ftype, condition.operator), ftype, field_types)

RECURSIVE AndConditions(_, _)
AndConditions(conditions, field_types) ==
    IF conditions = << >> THEN << >>
    ELSE ClauseOf(Head(conditions), TypeOf(field_types, Head(conditions).field), field_types)
         \o AndConditions(Tail(conditions), field_types)

Conjoined(and_conditions) ==
    IF Len(and_conditions) = 1 THEN and_conditions[1]
    ELSE Junction("$and", and_conditions)

\* lines 177-250; field_types is a dict, empty for None
build_match_stage(conditions, field_types) ==
    IF conditions = << >> THEN EmptyFilter
    ELSE Conjoined(AndConditions(conditions, field_types))

\* a stage of an aggregation pipeline
Stage(operator, body) == [stage |-> operator, body |-> body]

\* f"${field}"
DollarField(field) == << "$" >> \o (IF field = None THEN << "N", "o", "n", "e" >> ELSE field)

\* lines 290-310
Accumulator(aggregation) ==
    IF aggregation.type = "count" THEN Stage("$count", << "result" >>)
    ELSE Stage("$group", << "$" \o aggregation.type, DollarField(aggregation.field) >>)

\* lines 287-288: if match_stage: pipeline.append({"$match": match_stage})
MatchStages(match_stage) ==
    IF match_stage = EmptyFilter THEN << >> ELSE << Stage("$match", << match_stage >>) >>

\* lines 283-310: the pipeline of an aggregate IR that compiles
Pipeline(validated_ir, field_types) ==
    MatchStages(build_match_stage(validated_ir.conditions, field_types))
    \o << Accumulator(validated_ir.aggregation[1]) >>

\* lines 253-317: the plan with its filter and its pipeline, of an IR that
\* compiles
CompiledQuery(validated_ir, field_types) ==
    [type |-> compile_ir_to_mongo(validated_ir).type,
     sort |-> compile_ir_to_mongo(validated_ir).sort,
     limit |-> compile_ir_to_mongo(validated_ir).limit,
     filter |-> IF validated_ir.operation = "find"
                THEN build_match_stage(validated_ir.conditions, field_types)
                ELSE EmptyFilter,
     pipeline |-> IF validated_ir.operation = "aggregate"
                  THEN Pipeline(validated_ir, field_types)
                  ELSE << >>]
(***************************************************************************)
(* llm_parser.py: parse_with_llm on a JSON object that may lack keys       *)
(***************************************************************************)

\* the JSON object read from the model's answer: the keys it lacks, and its
\* body with None for what a lacking key would hold; each condition lists
\* the keys it lacks likewise
Answer(absent, body) == [absent |-> absent, body |-> body]

AnswerCondition(field, operator, value, absent) ==
    [field |-> field, operator |-> operator, value |-> value, absent |-> absent]

\* dict.get of a key the object lacks
NoneValue == [t |-> "NoneType", v |-> << >>]

\* line 143: cond["field"] raises KeyError on a condition without the key;
\* the loop runs over ir.get("conditions", [])
FixRaises(conditions) ==
    \E i \in 1..Len(conditions) : "field" \in conditions[i].absent

\* line 92: {"field", "operator", "value"} <= cond.keys()
HasItsKeys(conditions) ==
    \A i \in 1..Len(conditions) : conditions[i].absent = { }

\* the conditions as dicts of field, operator and value
Plain(conditions) ==
    [i \in 1..Len(conditions) |->
        Condition(conditions[i].field, conditions[i].operator, conditions[i].value)]

\* lines 531-548: _validate_ir_structure, then the keys set by default and
\* the meta entry
Accepted(sanitized, allowed_fields) ==
    IF HasItsKeys(sanitized.conditions) /\ _validate_ir_structure(sanitized, allowed_fields)
    THEN << WithMeta([sanitized EXCEPT !.conditions = Plain(sanitized.conditions)], LLMMeta) >>
    ELSE << >>

\* what a call of parse_with_llm comes to
Parsed(result) == [raised |-> FALSE, ir |-> result]

\* lines 520-548: parse_with_llm from _extract_json on, for an answer that
\* may lack keys: _fix_field_names subscripts every condition's field;
\* _sanitize_ir_values reads with .get and stores a list of conditions
\* whether or not the answer had one; _validate_ir_structure wants the
\* operation and the three keys of every condition left
ParseAnswer(answer, allowed_fields, field_types) ==
    IF FixRaises(answer.body.conditions) THEN [raised |-> TRUE, ir |-> << >>]
    ELSE Parsed(Accepted(_sanitize_ir_values(_fix_field_names(answer.body, allowed_fields),
                                             allowed_fields, field_types),
                         allowed_fields))

\* what the handler's call of parse_with_llm can come to: it raises (always
\* so with history=), it returns None without an answer to read, or it
\* returns what it makes of the answer
AnswerOutcomes(which, answers, allowed_fields, field_types) ==
    IF PassesHistory(which)
    THEN { [raised |-> TRUE, extracted |-> << >>, ir |-> << >>] }
    ELSE { [raised |-> FALSE, extracted |-> << >>, ir |-> << >>] }
         \cup { [raised |-> ParseAnswer(answer, allowed_fields, field_types).raised,
                 extracted |-> << answer >>,
                 ir |-> ParseAnswer(answer, allowed_fields, field_types).ir] :
                answer \in answers }

\* the catalog a request works with: what get_cached_schema returns
TypedCatalog(allowed_fields, numeric_fields, field_types) ==
    [allowed_fields |-> allowed_fields, numeric_fields |-> numeric_fields,
     field_types |-> field_types]
(***************************************************************************)
(* Inputs of the cache: collections, worker threads, calls                 *)
(***************************************************************************)

MaxCalls == 3
MaxWrites == 2

s_u == << "u" >>
s_a == << "a" >>
s_b == << "b" >>
s_c == << "c" >>
s_a_b == << "a", "-", "b" >>
s_u_a == << "u", "-", "a" >>

\* (mongo_uri, database_name, collection_name) of the requests
Collections == { << s_u, s_a, s_c >>, << s_u, s_a_b, s_c >>, << s_u_a, s_b, s_c >> }

\* the sync endpoints run on the threads of the server's worker pool
WorkerPool == { 1, 2 }

(***************************************************************************)
(* Inputs of the schema sampling: the documents of a collection            *)
(***************************************************************************)

MaxDocs == 3

s_a_dot_b == << "a", ".", "b" >>

Scalar(key, kind) == Node(key, kind, << >>)

\* {a: "x"}, {a: 5}, {a: ["x", "y"]}, {a: {b: 1.5}},
\* {a: [{b: "x"}, {b: [1, true]}, 3]}, {_id: 1, a: null, "a.b": true},
\* {a: [], b: <date>}
DocPool ==
    { << Scalar(s_a, "str") >>,
      << Scalar(s_a, "int") >>,
      << Node(s_a, "list", << Scalar(<< >>, "str"), Scalar(<< >>, "str") >>) >>,
      << Node(s_a, "dict", << Scalar(s_b, "float") >>) >>,
      << Node(s_a, "list",
              << Node(<< >>, "dict", << Scalar(s_b, "str") >>),
                 Node(<< >>, "dict",
                      << Node(s_b, "list", << Scalar(<< >>, "int"), Scalar(<< >>, "bool") >>) >>),
                 Scalar(<< >>, "int") >>) >>,
      << Scalar(s__id, "int"), Scalar(s_a, "null"), Scalar(s_a_dot_b, "bool") >>,
      << Node(s_a, "list", << >>), Scalar(s_b, "date") >> }

\* what collection.find().limit(sample_size) returns: the documents in the
\* order the store hands them over
DocLists == UNION { [1..n -> DocPool] : n \in 0..MaxDocs }

(***************************************************************************)
(* Inputs of the rule-based parser: request texts, catalogs, clocks        *)
(***************************************************************************)

\* the number of parse_to_ir calls on one text and catalog
MaxRuns == 2

w_dollar_1500 == << "$", "1", ",", "5", "0", "0" >>

w_9_50 == << "9", ".", "5", "0" >>

\* cleaned request texts, word by word
Texts ==
    { << w_show, w_all >>,
      << w_hello >>,
      << w_show, w_orders, w_over, w_infk >>,
      << w_show, w_orders, w_under, w_dollar_1500 >>,
      << w_show, w_orders, w_from, w_last, w_3000, w_years >>,
      << w_show, w_orders, w_from, w_last, w_99999999999, w_years >>,
      << w_show, w_orders, w_from, w_last, w_5, w_days >>,
      << w_orders, w_today >>,
      << w_orders, w_next, w_2, w_hours >>,
      << w_show, w_name, w_only, w_city >>,
      << w_users, w_with, w_age, w_5, w_having, w_name, w_bob >>,
      << w_how, w_much, w_did, w_we, w_make >>,
      << w_how, w_many, w_users >>,
      << w_total, w_of, w_things >>,
      << w_average, w_price >>,
      << w_count, w_users, w_where, w_age, w_greater, w_than, w_30 >>,
      << w_where, w_created_at, w_contains, w_foo >>,
      << w_where, w_name, w_contains, w_bob, w_smith >>,
      << w_where, w_age, w_between, w_1, w_and, w_5 >>,
      << w_where, w_age, w_not, w_between, w_1, w_5, w_6 >>,
      << w_find, w_users, w_whose, w_name, w_is, w_not, w_alice >>,
      << w_users, w_where, w_price, w_less, w_than, w_9_50 >>,
      << w_top, w_5, w_users, w_by, w_price >>,
      << w_show, w_users, w_limit, w_3 >>,
      << w_show, w_cheapest, w_price >>,
      << w_top, w_infk, w_users >> }

w_address_city == << "a", "d", "d", "r", "e", "s", "s", ".", "c", "i", "t", "y" >>

w_orders_total == << "o", "r", "d", "e", "r", "s", ".", "t", "o", "t", "a", "l" >>

\* the catalogs of a schema sampling: sorted field-paths and, of those, the
\* numeric ones
ParseCatalogs ==
    { ParseCatalog(<< >>, << >>),
      ParseCatalog(<< w_age, w_city, w_created_at, w_name, w_price >>, << w_age, w_price >>),
      ParseCatalog(<< w_city, w_name >>, << >>),
      ParseCatalog(<< w_address_city, w_name, w_orders_total >>, << w_orders_total >>) }

\* datetime(year, month, day, hour, minute)
Moment(year, month, day, hour, minute) ==
    [ordinal |-> DateOf(year, month, day).ordinal, minute |-> hour * 60 + minute]

\* the times at which a call may read datetime.now(), in order
Clocks == << Moment(2026, 11, 5, 14, 30), Moment(2026, 12, 31, 23, 59) >>

\* iteration orders of PROJECTION_KEYWORDS and _CONDITION_TRIGGERS: str
\* hashes differ from one process to the next, and so does the order of a set
HashOrders ==
    << [projection |-> << w_show, w_display, w_select, w_return, w_get, w_only, w_what,
                          w_which, w_give, w_tell, w_retrieve, w_find, w_list >>,
        triggers |-> << w_where, w_with, w_having, w_whose, w_when, w_if, w_that, w_which >>],
       [projection |-> << w_list, w_find, w_retrieve, w_tell, w_give, w_which, w_what,
                          w_only, w_get, w_return, w_select, w_display, w_show >>,
        triggers |-> << w_which, w_that, w_if, w_when, w_whose, w_having, w_with, w_where >>] >>

(***************************************************************************)
(* Inputs of the compiler: validated IRs and the catalog's types           *)
(***************************************************************************)

s_tags == << "t", "a", "g", "s" >>

v_42 == << "4", "2" >>

v_neg7 == << "-", "7" >>

v_1_5 == << "1", ".", "5" >>

v_1_0 == << "1", ".", "0" >>

v_abc == << "a", "b", "c" >>

v_a_b == << "a", ".", "b" >>

v_hex == << "5", "0", "7", "f", "1", "9", "1", "e", "8", "1", "0", "c", "1", "9", "7", "2", "9", "d", "e", "8", "6", "0", "e", "a" >>

v_HEX == << "5", "0", "7", "F", "1", "9", "1", "E", "8", "1", "0", "C", "1", "9", "7", "2", "9", "D", "E", "8", "6", "0", "E", "A" >>

v_day == << "2", "0", "2", "4", "-", "0", "1", "-", "1", "5" >>

v_midnight == << "2", "0", "2", "4", "-", "0", "1", "-", "1", "5", "T", "0", "0", ":", "0", "0", ":", "0", "0" >>

v_morning == << "2", "0", "2", "4", "-", "0", "1", "-", "1", "5", "T", "1", "0", ":", "3", "0", ":", "0", "0" >>

v_half_past == << "2", "0", "2", "4", "-", "0", "1", "-", "1", "5", "T", "0", "0", ":", "0", "0", ":", "0", "0", ".", "5" >>

v_spaced == << "2", "0", "2", "4", "-", "0", "1", "-", "1", "5", " ", "0", "0", ":", "0", "0", ":", "0", "0" >>

v_us == << "0", "1", "/", "1", "5", "/", "2", "0", "2", "4" >>

v_eu == << "1", "5", "/", "0", "1", "/", "2", "0", "2", "4" >>

v_no_day == << "2", "0", "2", "4", "-", "0", "2", "-", "3", "0" >>

v_2024 == << "2", "0", "2", "4" >>

\* the fields a validated condition may name: the identifier and fields of
\* every kind of type
CompileFields == { s__id, s_name, s_born, s_tags, s_age }

\* field_types as get_cached_schema returns it (it has no entry for the
\* top-level _id), and the empty dict
CompileTypes ==
    { << >>,
      (s_name :> "string") @@ (s_born :> "date") @@ (s_tags :> "array_of_strings")
          @@ (s_age :> "int") }

\* the values of a condition: texts, numbers, dates written in the ways
\* _DATE_FORMATS lists, with and without a time of day
CompileValues ==
    { StrValue(text) : text \in { v_42, v_neg7, v_1_5, v_1_0, v_abc, v_a_b, v_hex, v_HEX, v_day,
                                  v_midnight, v_morning, v_half_past, v_spaced, v_us, v_eu,
                                  v_no_day, v_2024 } }
    \cup { [t |-> "int", v |-> v_42], [t |-> "int", v |-> v_2024], [t |-> "float", v |-> v_1_5] }

CompileConditions ==
    { Condition(field, operator, value) :
        field \in CompileFields, operator \in ALLOWED_OPERATORS, value \in CompileValues }

\* the condition lists: none, every single condition, and two pairs
CompileConditionLists ==
    { << >> }
    \cup { << condition >> : condition \in CompileConditions }
    \cup { << Condition(s_name, "eq", StrValue(v_abc)), Condition(s_age, "gt", [t |-> "int", v |-> v_42]) >>,
           << Condition(s__id, "eq", StrValue(v_42)), Condition(s_born, "eq", StrValue(v_day)) >> }

\* what validate_ir returns: finds and aggregations over those conditions
CompileIRs ==
    [ operation : { "find" },
      conditions : CompileConditionLists,
      aggregation : { << >> },
      sort : { << >> },
      limit : { << DefaultFindLimit >> },
      projection : { << >> } ]
    \cup
    [ operation : { "aggregate" },
      conditions : CompileConditionLists,
      aggregation : { Aggregation("count", None), Aggregation("avg", s_age) },
      sort : { << >> },
      limit : { << >> },
      projection : { << >> } ]

(***************************************************************************)
(* Inputs of a request from its text to its plan                           *)
(***************************************************************************)

\* the catalogs of two collections
PlanCatalogs ==
    { TypedCatalog(<< w_age, w_city, w_created_at, w_name, w_price >>, << w_age, w_price >>,
                   (w_age :> "int") @@ (w_city :> "string") @@ (w_created_at :> "date")
                       @@ (w_name :> "string") @@ (w_price :> "float")),
      TypedCatalog(<< w_city, w_name >>, << >>,
                   (w_city :> "string") @@ (w_name :> "string")) }

AnswerBody(operation, conditions, aggregation) ==
    [operation |-> operation, conditions |-> conditions, aggregation |-> aggregation,
     sort |-> << >>, limit |-> << >>, projection |-> << >>]

\* the JSON objects read from the model's answers: counts with the field
\* "*" the prompt prescribes and with null, an aggregate whose aggregation
\* is null, an average, finds with a complete
\* condition, with "contains" on a date, with an operator the IR does not
\* have, and objects that lack the operation, the conditions, or a key of a
\* condition
ModelAnswers ==
    { Answer({ }, AnswerBody("aggregate", << >>, Aggregation("count", s_star))),
      Answer({ }, AnswerBody("aggregate",
                             << AnswerCondition(w_age, "gt", StrValue(w_30), { }) >>,
                             Aggregation("count", s_star))),
      Answer({ }, AnswerBody("aggregate",
                             << AnswerCondition(w_age, "gt", StrValue(w_30), { }) >>,
                             Aggregation("count", None))),
      Answer({ }, AnswerBody("aggregate", << >>, << >>)),
      Answer({ }, AnswerBody("aggregate", << >>, Aggregation("avg", w_price))),
      Answer({ }, AnswerBody("find", << AnswerCondition(w_name, "eq", StrValue(w_bob), { }) >>,
                             << >>)),
      Answer({ }, AnswerBody("find",
                             << AnswerCondition(w_created_at, "contains", StrValue(w_foo), { }) >>,
                             << >>)),
      Answer({ }, AnswerBody("find",
                             << AnswerCondition(w_name, "between", StrValue(w_bob), { }) >>,
                             << >>)),
      Answer({ "conditions" }, AnswerBody("find", << >>, << >>)),
      Answer({ "operation" },
             AnswerBody("None", << AnswerCondition(w_name, "eq", StrValue(w_bob), { }) >>, << >>)),
      Answer({ }, AnswerBody("find",
                             << AnswerCondition(<< >>, "eq", StrValue(w_bob), { "field" }) >>,
                             << >>)),
      Answer({ }, AnswerBody("find",
                             << AnswerCondition(w_name, "None", StrValue(w_bob), { "operator" }) >>,
                             << >>)),
      Answer({ }, AnswerBody("find",
                             << AnswerCondition(w_name, "eq", NoneValue, { "value" }) >>,
                             << >>)),
      Answer({ }, AnswerBody("find",
                             << AnswerCondition(w_zip, "None", NoneValue, { "operator", "value" }) >>,
                             << >>)) }

(***************************************************************************)
(* Inputs of the field references: sampled documents, the catalogs they    *)
(* give, and IRs that name fields of them                                  *)
(***************************************************************************)

s_options == << "o", "p", "t", "i", "o", "n", "s" >>

s_id == << "i", "d" >>

s_nme == << "n", "m", "e" >>

v_x == << "x" >>

\* field_types after the observed types are merged into it, in order
RECURSIVE MergeAll(_, _)
MergeAll(types, observations) ==
    IF observations = << >> THEN types
    ELSE MergeAll(MergeType(types, Head(observations).path, Head(observations).ftype),
                  Tail(observations))

\* the flattened fields of one document as the observations lines 189-197
\* make of them
FlatObservations(flattened) ==
    [i \in 1..Len(flattened) |->
        Observation(flattened[i].path, _detect_type(flattened[i].value))]

\* lines 183-197, document after document
RECURSIVE SampledTypes(_, _)
SampledTypes(sampled, types) ==
    IF sampled = << >> THEN types
    ELSE SampledTypes(Tail(sampled),
            MergeAll(MergeAll(types, _detect_field_types_recursive(Head(sampled), << >>)),
                     FlatObservations(flatten_document(Head(sampled), << >>))))

\* the flattened fields of all the documents
RECURSIVE SampledItems(_)
SampledItems(sampled) ==
    IF sampled = << >> THEN { }
    ELSE LET flattened == flatten_document(Head(sampled), << >>)
         IN  { flattened[i] : i \in 1..Len(flattened) } \cup SampledItems(Tail(sampled))

\* lines 199-207: what get_collection_schema returns for a sample
SampledCatalog(sampled) ==
    TypedCatalog(SortedSeq({ item.path : item \in SampledItems(sampled) }),
                 SortedSeq({ item.path : item \in { x \in SampledItems(sampled) :
                                                        IsNumeric(x.value) } }),
                 SampledTypes(sampled, << >>))

\* {_id: 1, options: [{id: 2}]}
\* {_id: 1, Name: "x", name: "y"}
\* {_id: 1, a: {_id: 2}, name: "x"}
\* {_id: 1, name: "x", zip: 3}
ReferenceSamples ==
    { << << Scalar(s__id, "int"),
            Node(s_options, "list", << Node(<< >>, "dict", << Scalar(s_id, "int") >>) >>) >> >>,
      << << Scalar(s__id, "int"), Scalar(s_Name, "str"), Scalar(s_name, "str") >> >>,
      << << Scalar(s__id, "int"), Node(s_a, "dict", << Scalar(s__id, "int") >>),
            Scalar(s_name, "str") >> >>,
      << << Scalar(s__id, "int"), Scalar(s_name, "str"), Scalar(s_zip, "int") >> >> }

\* the fields the requests name
NamedFields == { s_options, s_nme, s__id, s_name, s_zip }

ReferenceConditions == { Condition(f, "eq", StrValue(v_x)) : f \in NamedFields }

ReferenceIRs ==
    [ operation : { "find" },
      conditions : SeqsUpTo(ReferenceConditions, MaxConds),
      aggregation : { << >>, Aggregation("avg", s_nme) },
      sort : { << >>, SortBy(s_nme, "desc"), SortBy(s_zip, "asc") },
      limit : { << >>, << MAX_LIMIT + 1 >> },
      projection : { << >>, << << s_name, s_zip >> >> } ]

(***************************************************************************)
(* db_executor.py: execute_query, page by page                             *)
(***************************************************************************)

MAX_PAGE_SIZE == 100

\* lines 72-77: the IR's limit as a bound on the results, None without one
EffectiveLimit(ir_limit) ==
    IF ir_limit # << >> /\ ir_limit[1] > 0
    THEN << Min(ir_limit[1], MAX_PAGE_SIZE) >>
    ELSE << >>

\* line 67: max(1, page)
CappedPage(page) == IF page < 1 THEN 1 ELSE page

\* lines 68 and 75
CappedPageSize(page_size, effective_limit) ==
    IF effective_limit # << >>
    THEN Min(Min(CappedPage(page_size), MAX_PAGE_SIZE), effective_limit[1])
    ELSE Min(CappedPage(page_size), MAX_PAGE_SIZE)

\* cursor.skip(skip).limit(page_size) over what the cursor yields
SkipLimit(found, skip, page_size) ==
    SubSeq(found, skip + 1, Min(skip + page_size, Len(found)))

\* lines 98-99
CappedCount(total_count, effective_limit) ==
    IF effective_limit # << >> THEN Min(total_count, effective_limit[1]) ELSE total_count

\* the dict execute_query returns
QueryResult(data, total_count, page, page_size) ==
    [data |-> data, total_count |-> total_count, page |-> page, page_size |-> page_size]

\* lines 88-119: a find, with the page size of lines 68 and 75
FindPage(found, page, page_size, effective_limit) ==
    QueryResult(SkipLimit(found, (page - 1) * page_size, page_size),
                CappedCount(Len(found), effective_limit),
                page, page_size)

\* execute_query on a plan; found is what the store yields for it: the
\* documents matching a find's filter in the order of its sort, or the
\* output of an aggregate's pipeline
execute_query(mongo_query, page, page_size, found) ==
    IF mongo_query.type = "find"
    THEN FindPage(found, CappedPage(page),
                  CappedPageSize(page_size, EffectiveLimit(mongo_query.limit)),
                  EffectiveLimit(mongo_query.limit))
    ELSE IF mongo_query.type = "aggregate"
    THEN QueryResult(found, Len(found), 1, Len(found))
    ELSE QueryResult(<< >>, 0, CappedPage(page),
                     CappedPageSize(page_size, EffectiveLimit(mongo_query.limit)))

(***************************************************************************)
(* Inputs of the paging: plans, page sizes, the number of matching         *)
(* documents                                                               *)
(***************************************************************************)

\* the number of pages a client asks for, one after the other
MaxPages == 3

\* plans with and without a limit, a limit above the cap among them
PagePlans ==
    [ type : { "find" },
      sort : { << >> },
      limit : { << >>, << 0 >>, << 2 >>, << 5 >>, << MAX_PAGE_SIZE >>, << MAX_PAGE_SIZE + 50 >> },
      filter : { EmptyFilter },
      pipeline : { << >> } ]
    \cup
    [ type : { "aggregate" },
      sort : { << >> },
      limit : { << >> },
      filter : { EmptyFilter },
      pipeline : { << Stage("$count", << "result" >>) >> } ]

\* page_size of the request
PageSizes == { 0, 1, 2, 20, MAX_PAGE_SIZE, 5 * MAX_PAGE_SIZE }

\* the documents a find matches, by their position in the order of the sort
Documents(n) == [i \in 1..n |-> i]

MatchCounts == { 0, 1, 4, 12, MAX_PAGE_SIZE + 20 }

\* what the store yields for a plan over a collection of n matching
\* documents; a $count over no document yields nothing
Found(mongo_query, n) ==
    IF mongo_query.type = "find" THEN Documents(n)
    ELSE IF n = 0 THEN << >> ELSE << n >>


(***************************************************************************)
(* The calls of the model in parse_with_llm                                *)
(***************************************************************************)

\* max_retries = 2
max_retries == 2

\* for attempt in range(max_retries + 1)
LoopAttempts == 0..max_retries

n_429 == << "4", "2", "9" >>

\* "429" in err_str
RateLimited(err_str) == IsSubstring(n_429, err_str)

\* if "429" in err_str and attempt < max_retries
Retries_AnyFailure(err_str, attempt) == attempt < max_retries
Retries(err_str, attempt) == RateLimited(err_str) /\ attempt < max_retries

\* wait = 4 * (attempt + 1)
Backoff(attempt) == 4 * (attempt + 1)

\* one pass of the loop: the attempt, str(e) of what the try block raised
\* (<< >> when nothing was raised) and the seconds slept before the next
Pass(attempt, error, wait) == [attempt |-> attempt, error |-> error, wait |-> wait]

\* str(e) of what a call of the model can raise: a rate limit, an outage, a
\* text that has 429 inside a longer number, a text that has its digits apart
ErrorTexts ==
    { << "4", "2", "9", " ", "R" >>,
      << "5", "0", "3", " ", "U" >>,
      << "e", "1", "4", "2", "9", "0" >>,
      << "4", "2", " ", "9" >> }
(***************************************************************************)
(* State                                                                   *)
(***************************************************************************)

VARIABLES
    ir,              \* the IR dict the caller holds, << >> for None (validate_ir rewrites it in place)
    allowed_fields,  \* the catalog's field-paths
    given_ir,        \* the IR as it was handed to validate_ir, << >> before the call
    outcome,         \* of the validate_ir call: "pending", "returned" or the error
    endpoint,        \* the handler serving the request
    PARSER_MODE,     \* config.PARSER_MODE
    field_types,     \* the catalog's detected types
    pc,              \* the stage the handler is at
    extracted,       \* the JSON object read from the model's answer, << >> for none
    parser_used,     \* the handler's local parser_used
    ir_source,       \* the parser whose return value the handler holds as its IR
    calls,           \* the collaborators called so far, in order
    mongo_query,     \* the compiled plan, << >> before compilation
    response,        \* how the request ended, and the tag its body carries
    schema_cache,    \* schema_utils.schema_cache: cache key -> catalog
    store,           \* per collection, the number of writes it has seen
    committed,       \* per collection, the writes of the mutation_commit calls that have ended
    workers,         \* the worker threads serving requests
    thread_pc,       \* per worker, where it is in its call
    req,             \* per worker, the collection its call is about
    local,           \* per worker, the result get_cached_schema has sampled
    floor,           \* per worker, committed[req] when its get_cached_schema began
    written,         \* per worker, the write its mutation_commit made
    log,             \* the completed calls on the cache, in order of completion
    started,         \* the number of calls begun
    docs,            \* get_collection_schema: the sampled documents
    doc_index,       \* the number of documents the loop has taken up
    infer_pc,        \* where get_collection_schema is
    detecting,       \* what the walk over the current document has yet to merge
    flat,            \* the flattened fields of the current document not yet tracked
    all_fields,      \* get_collection_schema's all_fields
    numeric_fields,  \* get_collection_schema's numeric_fields
    schema_field_types,  \* get_collection_schema's field_types
    schema_result,   \* what get_collection_schema returned, << >> before
    user_input,      \* parse_to_ir: the words of the cleaned, lower-cased request text
    schema,          \* the catalog parse_to_ir receives: allowed_fields and numeric_fields
    clock,           \* what datetime.now() returns
    hash_order,      \* the orders in which this process iterates the parser's keyword sets
    parsed           \* what the parse_to_ir calls so far came to, in order

validate_vars == << ir, allowed_fields, given_ir, outcome >>

pipeline_vars == << endpoint, PARSER_MODE, field_types, pc, extracted, parser_used,
                    ir_source, calls, mongo_query, response >>

cache_vars == << schema_cache, store, committed, workers, thread_pc, req, local, floor,
                 written, log, started >>

infer_vars == << docs, doc_index, infer_pc, detecting, flat, all_fields, numeric_fields,
                 schema_field_types, schema_result >>

parse_vars == << user_input, schema, clock, hash_order, parsed >>

vars == << validate_vars, pipeline_vars, cache_vars, infer_vars, parse_vars >>

\* no validate_ir call under way
ValidateIdle ==
    /\ ir = << >>
    /\ allowed_fields = << >>
    /\ given_ir = << >>
    /\ outcome = "pending"

\* the pipeline at rest, for the specifications that are not about a request
PipelineIdle ==
    /\ endpoint = "none"
    /\ PARSER_MODE = "auto"
    /\ field_types = << >>
    /\ pc = "idle"
    /\ extracted = << >>
    /\ parser_used = "none"
    /\ ir_source = "none"
    /\ calls = << >>
    /\ mongo_query = << >>
    /\ response = [status |-> "pending", parser_used |-> "unset"]

\* no get_collection_schema call under way
InferIdle ==
    /\ docs = << >>
    /\ doc_index = 0
    /\ infer_pc = "idle"
    /\ detecting = << >>
    /\ flat = << >>
    /\ all_fields = { }
    /\ numeric_fields = { }
    /\ schema_field_types = << >>
    /\ schema_result = << >>

\* no parse_to_ir call made
ParseIdle ==
    /\ user_input = << >>
    /\ schema = ParseCatalog(<< >>, << >>)
    /\ clock = Clocks[1]
    /\ hash_order = HashOrders[1]
    /\ parsed = << >>

(***************************************************************************)
(* Calls on the schema cache from worker threads                           *)
(***************************************************************************)

\* the cache is empty when the service starts (app.py clears it on import)
CacheStart(threads) ==
    /\ schema_cache = << >>
    /\ store = [c \in Collections |-> 0]
    /\ committed = [c \in Collections |-> 0]
    /\ workers = threads
    /\ thread_pc = [t \in WorkerPool |-> "idle"]
    /\ req = [t \in WorkerPool |-> << >>]
    /\ local = [t \in WorkerPool |-> << >>]
    /\ floor = [t \in WorkerPool |-> 0]
    /\ written = [t \in WorkerPool |-> 0]
    /\ log = << >>
    /\ started = 0

CacheIdle == CacheStart({ })

\* one completed call: what was asked, whether the store was sampled, what
\* came back (result is << >> when nothing did), and for a
\* get_cached_schema the writes to its collection that mutation_commit had
\* completed when the call began
Event(op, collection_id, sampled, raised, result, after) ==
    [op |-> op, collection |-> collection_id, sampled |-> sampled, raised |-> raised,
     result |-> result, after |-> after]

\* a worker picks up a request that calls get_cached_schema
StartGet(t, c) ==
    /\ t \in workers
    /\ thread_pc[t] = "idle"
    /\ started < MaxCalls
    /\ started' = started + 1
    /\ thread_pc' = [thread_pc EXCEPT ![t] = "check"]
    /\ req' = [req EXCEPT ![t] = c]
    /\ floor' = [floor EXCEPT ![t] = committed[c]]
    /\ UNCHANGED << schema_cache, store, committed, workers, local, written, log >>
    /\ UNCHANGED << validate_vars, pipeline_vars, infer_vars, parse_vars >>

\* get_cached_schema, line 255: if key in schema_cache
CheckCache(t) ==
    /\ thread_pc[t] = "check"
    /\ thread_pc' = [thread_pc EXCEPT ![t] =
                        IF CacheHit(schema_cache, _cache_key(req[t])) THEN "hit" ELSE "miss"]
    /\ UNCHANGED << schema_cache, store, committed, workers, req, local, floor, written, log, started >>
    /\ UNCHANGED << validate_vars, pipeline_vars, infer_vars, parse_vars >>

\* get_cached_schema, line 257: return schema_cache[key]; the lookup raises
\* KeyError when the key is gone by now
ReadCache(t) ==
    /\ thread_pc[t] = "hit"
    /\ thread_pc' = [thread_pc EXCEPT ![t] = "idle"]
    /\ log' = Append(log,
                IF _cache_key(req[t]) \in DOMAIN schema_cache
                THEN Event("get", req[t], FALSE, "none",
                           << schema_cache[_cache_key(req[t])] >>, floor[t])
                ELSE Event("get", req[t], FALSE, "KeyError", << >>, floor[t]))
    /\ UNCHANGED << schema_cache, store, committed, workers, req, local, floor, written, started >>
    /\ UNCHANGED << validate_vars, pipeline_vars, infer_vars, parse_vars >>

\* get_cached_schema, line 260: the store is sampled; the sampling may
\* raise (no connection, timeout), and then nothing is cached
Sample(t) ==
    /\ thread_pc[t] = "miss"
    /\ \/ /\ local' = [local EXCEPT ![t] = << get_collection_schema(req[t], store) >>]
          /\ thread_pc' = [thread_pc EXCEPT ![t] = "store"]
          /\ UNCHANGED log
       \/ /\ thread_pc' = [thread_pc EXCEPT ![t] = "idle"]
          /\ log' = Append(log, Event("get", req[t], TRUE, "sampling", << >>, floor[t]))
          /\ UNCHANGED local
    /\ UNCHANGED << schema_cache, store, committed, workers, req, floor, written, started >>
    /\ UNCHANGED << validate_vars, pipeline_vars, infer_vars, parse_vars >>

\* get_cached_schema, lines 261-262: schema_cache[key] = result; return result
StoreCache(t) ==
    /\ thread_pc[t] = "store"
    /\ schema_cache' = CachePut(schema_cache, _cache_key(req[t]), local[t][1])
    /\ thread_pc' = [thread_pc EXCEPT ![t] = "idle"]
    /\ log' = Append(log, Event("get", req[t], TRUE, "none", local[t], floor[t]))
    /\ UNCHANGED << store, committed, workers, req, local, floor, written, started >>
    /\ UNCHANGED << validate_vars, pipeline_vars, infer_vars, parse_vars >>

\* invalidate_schema(uri, db, collection)
InvalidateSchema(t, c) ==
    /\ t \in workers
    /\ thread_pc[t] = "idle"
    /\ started < MaxCalls
    /\ started' = started + 1
    /\ schema_cache' = CachePop(schema_cache, _cache_key(c))
    /\ log' = Append(log, Event("invalidate", c, FALSE, "none", << >>, 0))
    /\ UNCHANGED << store, committed, workers, thread_pc, req, local, floor, written >>
    /\ UNCHANGED << validate_vars, pipeline_vars, infer_vars, parse_vars >>

\* clear_schema_cache()
ClearSchemaCache(t) ==
    /\ t \in workers
    /\ thread_pc[t] = "idle"
    /\ started < MaxCalls
    /\ started' = started + 1
    /\ schema_cache' = << >>
    /\ log' = Append(log, Event("clear", << >>, FALSE, "none", << >>, 0))
    /\ UNCHANGED << store, committed, workers, thread_pc, req, local, floor, written >>
    /\ UNCHANGED << validate_vars, pipeline_vars, infer_vars, parse_vars >>

\* a worker picks up a mutation_commit request
StartCommit(t, c) ==
    /\ t \in workers
    /\ thread_pc[t] = "idle"
    /\ started < MaxCalls
    /\ started' = started + 1
    /\ thread_pc' = [thread_pc EXCEPT ![t] = "commit"]
    /\ req' = [req EXCEPT ![t] = c]
    /\ UNCHANGED << schema_cache, store, committed, workers, local, floor, written, log >>
    /\ UNCHANGED << validate_vars, pipeline_vars, infer_vars, parse_vars >>

LaterOf(m, n) == IF m >= n THEN m ELSE n

\* mutation_commit, the insert, update or delete on the collection: it
\* succeeds; or it raises with the collection already modified (an
\* insert_many stopped by a bad document, a lost reply) and the handler
\* answers 500 from its except clause, which does not invalidate; or it
\* raises with nothing written
CommitWrite(t) ==
    /\ thread_pc[t] = "commit"
    /\ \/ /\ store[req[t]] < MaxWrites
          /\ store' = [store EXCEPT ![req[t]] = @ + 1]
          /\ written' = [written EXCEPT ![t] = store[req[t]] + 1]
          /\ thread_pc' = [thread_pc EXCEPT ![t] = "invalidate"]
          /\ UNCHANGED << committed, log >>
       \/ /\ store[req[t]] < MaxWrites
          /\ store' = [store EXCEPT ![req[t]] = @ + 1]
          /\ committed' = [committed EXCEPT ![req[t]] = LaterOf(@, store[req[t]] + 1)]
          /\ thread_pc' = [thread_pc EXCEPT ![t] = "idle"]
          /\ log' = Append(log, Event("commit", req[t], FALSE, "after_write", << >>, 0))
          /\ UNCHANGED written
       \/ /\ thread_pc' = [thread_pc EXCEPT ![t] = "idle"]
          /\ log' = Append(log, Event("commit", req[t], FALSE, "before_write", << >>, 0))
          /\ UNCHANGED << store, committed, written >>
    /\ UNCHANGED << schema_cache, workers, req, local, floor, started >>
    /\ UNCHANGED << validate_vars, pipeline_vars, infer_vars, parse_vars >>

\* mutation_commit, line 1483: invalidate_schema for the collection, then
\* the handler returns
CommitInvalidate(t) ==
    /\ thread_pc[t] = "invalidate"
    /\ schema_cache' = CachePop(schema_cache, _cache_key(req[t]))
    /\ committed' = [committed EXCEPT ![req[t]] = LaterOf(@, written[t])]
    /\ thread_pc' = [thread_pc EXCEPT ![t] = "idle"]
    /\ log' = Append(log, Event("invalidate", req[t], FALSE, "none", << >>, 0))
    /\ UNCHANGED << store, workers, req, local, floor, written, started >>
    /\ UNCHANGED << validate_vars, pipeline_vars, infer_vars, parse_vars >>

NextCache ==
    \/ \E t \in WorkerPool, c \in Collections : StartGet(t, c)
    \/ \E t \in WorkerPool : CheckCache(t)
    \/ \E t \in WorkerPool : ReadCache(t)
    \/ \E t \in WorkerPool : Sample(t)
    \/ \E t \in WorkerPool : StoreCache(t)
    \/ \E t \in WorkerPool, c \in Collections : InvalidateSchema(t, c)
    \/ \E t \in WorkerPool : ClearSchemaCache(t)
    \/ \E t \in WorkerPool, c \in Collections : StartCommit(t, c)
    \/ \E t \in WorkerPool : CommitWrite(t)
    \/ \E t \in WorkerPool : CommitInvalidate(t)

\* calls made one after the other, by one worker
InitCacheSeq ==
    CacheStart({ 1 }) /\ ValidateIdle /\ PipelineIdle /\ InferIdle /\ ParseIdle

SpecCacheSeq == InitCacheSeq /\ [][NextCache]_vars

\* calls made by the workers of the pool, interleaved
InitCache ==
    CacheStart(WorkerPool) /\ ValidateIdle /\ PipelineIdle /\ InferIdle /\ ParseIdle

SpecCache == InitCache /\ [][NextCache]_vars

(***************************************************************************)
(* get_collection_schema over the sampled documents                        *)
(***************************************************************************)

\* lines 164-166: the three accumulators are empty before the loop
InferStart(sampled) ==
    /\ docs = sampled
    /\ doc_index = 0
    /\ infer_pc = "loop"
    /\ detecting = << >>
    /\ flat = << >>
    /\ all_fields = { }
    /\ numeric_fields = { }
    /\ schema_field_types = << >>
    /\ schema_result = << >>

\* for doc in docs, line 185: the walk over the raw document begins
ProcessDocument ==
    /\ infer_pc = "loop"
    /\ doc_index < Len(docs)
    /\ doc_index' = doc_index + 1
    /\ detecting' = _detect_field_types_recursive(docs[doc_index + 1], << >>)
    /\ infer_pc' = "detect"
    /\ UNCHANGED << docs, flat, all_fields, numeric_fields, schema_field_types, schema_result >>
    /\ UNCHANGED << validate_vars, pipeline_vars, cache_vars, parse_vars >>

\* _detect_field_types_recursive, lines 227-230: the type at one key is
\* merged into field_types
RecordType ==
    /\ infer_pc = "detect"
    /\ detecting # << >>
    /\ schema_field_types' =
            MergeType(schema_field_types, Head(detecting).path, Head(detecting).ftype)
    /\ detecting' = Tail(detecting)
    /\ UNCHANGED << docs, doc_index, infer_pc, flat, all_fields, numeric_fields, schema_result >>
    /\ UNCHANGED << validate_vars, pipeline_vars, cache_vars, parse_vars >>

\* line 188: flat = flatten_document(doc)
Flatten ==
    /\ infer_pc = "detect"
    /\ detecting = << >>
    /\ LET flattened == flatten_document(docs[doc_index], << >>)
       IN  /\ flat' = flattened
           /\ infer_pc' = IF flattened = << >> THEN "loop" ELSE "track"
    /\ UNCHANGED << docs, doc_index, detecting, all_fields, numeric_fields,
                    schema_field_types, schema_result >>
    /\ UNCHANGED << validate_vars, pipeline_vars, cache_vars, parse_vars >>

\* lines 189-197: one flattened field is added to the catalog and its type
\* merged
TrackField ==
    /\ infer_pc = "track"
    /\ all_fields' = all_fields \cup { Head(flat).path }
    /\ numeric_fields' = IF IsNumeric(Head(flat).value)
                         THEN numeric_fields \cup { Head(flat).path }
                         ELSE numeric_fields
    /\ schema_field_types' =
            MergeType(schema_field_types, Head(flat).path, _detect_type(Head(flat).value))
    /\ flat' = Tail(flat)
    /\ infer_pc' = IF Tail(flat) = << >> THEN "loop" ELSE "track"
    /\ UNCHANGED << docs, doc_index, detecting, schema_result >>
    /\ UNCHANGED << validate_vars, pipeline_vars, cache_vars, parse_vars >>

\* lines 161-162 and 199-207: the result, ([], [], {}) for no documents
ReturnSchema ==
    /\ infer_pc = "loop"
    /\ doc_index = Len(docs)
    /\ schema_result' = << [allowed_fields |-> SortedSeq(all_fields),
                            numeric_fields |-> SortedSeq(numeric_fields),
                            field_types |-> schema_field_types] >>
    /\ infer_pc' = "returned"
    /\ UNCHANGED << docs, doc_index, detecting, flat, all_fields, numeric_fields,
                    schema_field_types >>
    /\ UNCHANGED << validate_vars, pipeline_vars, cache_vars, parse_vars >>

NextInfer == ProcessDocument \/ RecordType \/ Flatten \/ TrackField \/ ReturnSchema

InitInfer ==
    /\ \E sampled \in DocLists : InferStart(sampled)
    /\ ValidateIdle /\ PipelineIdle /\ CacheIdle /\ ParseIdle

SpecInfer == InitInfer /\ [][NextInfer]_vars

(***************************************************************************)
(* validate_ir applied to every IR and catalog of the pools                *)
(***************************************************************************)

InitValidate ==
    /\ ir \in { << some_ir >> : some_ir \in IRPool }
    /\ allowed_fields \in Catalogs
    /\ given_ir = ir
    /\ outcome = "pending"
    /\ PipelineIdle
    /\ CacheIdle
    /\ InferIdle
    /\ ParseIdle

ValidateCall ==
    /\ outcome = "pending"
    /\ LET r == validate_ir(ir[1], allowed_fields)
       IN  /\ ir' = << r.ir >>
           /\ outcome' = IF r.error = "none" THEN "returned" ELSE r.error
    /\ UNCHANGED << allowed_fields, given_ir, pipeline_vars, cache_vars, infer_vars,
                    parse_vars >>

NextValidate == ValidateCall

SpecValidate == InitValidate /\ [][NextValidate]_vars

(***************************************************************************)
(* Claims about validate_ir                                                *)
(***************************************************************************)

InCatalog(f) == \E i \in 1..Len(allowed_fields) : allowed_fields[i] = f

\* C1 (resolution soundness): when validate_ir returns, every field
\* reference of the returned IR - each condition field, the aggregation
\* field and the sort field when set, every projection entry - is,
\* character for character, a field-path of the catalog it was validated
\* against.
C1_ResolutionSoundness ==
    outcome = "returned" =>
        /\ \A i \in 1..Len(ir[1].conditions) : InCatalog(ir[1].conditions[i].field)
        /\ (ir[1].aggregation # << >> /\ Truthy(ir[1].aggregation[1].field))
              => InCatalog(ir[1].aggregation[1].field)
        /\ (ir[1].sort # << >> /\ Truthy(ir[1].sort[1].field))
              => InCatalog(ir[1].sort[1].field)
        /\ ir[1].projection # << >>
              => \A i \in 1..Len(ir[1].projection[1]) : InCatalog(ir[1].projection[1][i])

\* a returned IR whose condition, aggregation, sort and projection
\* references were all rewritten to catalog paths
C1_Witness ==
    /\ outcome = "returned"
    /\ Len(ir[1].conditions) >= 1
    /\ ir[1].conditions # given_ir[1].conditions
    /\ ir[1].aggregation # << >> /\ Truthy(ir[1].aggregation[1].field)
    /\ ir[1].aggregation # given_ir[1].aggregation
    /\ ir[1].sort # << >> /\ ir[1].sort # given_ir[1].sort
    /\ ir[1].projection # << >> /\ ir[1].projection # given_ir[1].projection

\* C3 (limit clamp): when validate_ir returns, the limit is null or at most
\* 100; an input limit above 100 comes back as 100, a limit of 100 or less
\* (or null) comes back unchanged; and the limit never causes an error: a
\* call that raises raises the same error with the limit removed.
C3_LimitClamp ==
    /\ outcome = "returned" =>
          /\ ir[1].limit = << >> \/ ir[1].limit[1] <= 100
          /\ (given_ir[1].limit # << >> /\ given_ir[1].limit[1] > 100) => ir[1].limit = << 100 >>
          /\ (given_ir[1].limit = << >> \/ given_ir[1].limit[1] <= 100) => ir[1].limit = given_ir[1].limit
    /\ outcome \in { "field_not_found", "operator_not_allowed" } =>
          validate_ir([given_ir[1] EXCEPT !.limit = << >>], allowed_fields).error = outcome
    /\ (outcome # "pending" /\ given_ir[1].limit # << >>) =>
          (outcome = "returned"
             <=> validate_ir([given_ir[1] EXCEPT !.limit = << >>], allowed_fields).error = "none")

\* a returned IR whose limit of 101 was replaced by 100
C3_Witness ==
    /\ outcome = "returned"
    /\ given_ir[1].limit = << MAX_LIMIT + 1 >>
    /\ ir[1].limit = << MAX_LIMIT >>

(***************************************************************************)
(* One request through run_nlp, run_nlp_stream or diagnose                 *)
(***************************************************************************)

Pending == [status |-> "pending", parser_used |-> "unset"]

Ended(status) == [status |-> status, parser_used |-> "unset"]

Init ==
    /\ endpoint \in Endpoints
    /\ PARSER_MODE \in ParserModes
    /\ pc = "schema"
    /\ allowed_fields = << >>
    /\ field_types = << >>
    /\ ir = << >>
    /\ given_ir = << >>
    /\ outcome = "pending"
    /\ extracted = << >>
    /\ parser_used = "none"
    /\ ir_source = "none"
    /\ calls = << >>
    /\ mongo_query = << >>
    /\ response = Pending
    /\ CacheIdle
    /\ InferIdle
    /\ ParseIdle

\* step 1: get_cached_schema raises, or returns a catalog; run_nlp and
\* run_nlp_stream refuse an empty one
SchemaStep ==
    /\ pc = "schema"
    /\ calls' = Append(calls, "get_cached_schema")
    /\ \/ /\ response' = Ended("schema_failed")
          /\ pc' = "done"
          /\ UNCHANGED << allowed_fields, field_types >>
       \/ \E catalog \in TypedCatalogs :
             /\ allowed_fields' = catalog.allowed_fields
             /\ field_types' = catalog.field_types
             /\ IF RefusesEmpty(endpoint, catalog.allowed_fields)
                THEN response' = Ended("collection_empty") /\ pc' = "done"
                ELSE response' = response /\ pc' = "llm"
    /\ UNCHANGED << endpoint, PARSER_MODE, ir, given_ir, outcome, extracted,
                    parser_used, ir_source, mongo_query >>
    /\ UNCHANGED << cache_vars, infer_vars, parse_vars >>

\* step 2, first half: the model-backed parser, when the mode asks for it;
\* whatever it raises is swallowed
LLMStep ==
    /\ pc = "llm"
    /\ pc' = "rule"
    /\ IF TriesLLM(PARSER_MODE)
       THEN /\ calls' = Append(calls, "parse_with_llm")
            /\ \E o \in LLMOutcomes(endpoint, LLMAnswers, allowed_fields, field_types) :
                  /\ ir' = o.ir
                  /\ extracted' = o.extracted
                  /\ parser_used' = IF endpoint = "run_nlp_stream" THEN parser_used
                                    ELSE TagAfterLLM(o.ir, parser_used)
                  /\ ir_source' = IF o.ir # << >> THEN "llm" ELSE ir_source
       ELSE UNCHANGED << calls, ir, extracted, parser_used, ir_source >>
    /\ UNCHANGED << endpoint, PARSER_MODE, allowed_fields, field_types, given_ir,
                    outcome, mongo_query, response >>
    /\ UNCHANGED << cache_vars, infer_vars, parse_vars >>

\* step 2, second half: the rule-based parser, when there is no IR yet and
\* the mode asks for it; then the request ends if there is still no IR
RuleStep ==
    /\ pc = "rule"
    /\ IF TriesRule(ir, PARSER_MODE)
       THEN /\ calls' = Append(calls, "parse_to_ir")
            /\ \E rule_ir \in RuleResults(allowed_fields) :
                  /\ ir' = rule_ir
                  /\ parser_used' = IF endpoint = "run_nlp_stream" THEN parser_used
                                    ELSE TagAfterRule(rule_ir, parser_used)
                  /\ ir_source' = IF rule_ir # << >> THEN "rule" ELSE ir_source
       ELSE UNCHANGED << calls, ir, parser_used, ir_source >>
    /\ IF ir' = << >>
       THEN response' = Ended("parse_failed") /\ pc' = "done"
       ELSE response' = response /\ pc' = "validate"
    /\ UNCHANGED << endpoint, PARSER_MODE, allowed_fields, field_types, given_ir,
                    outcome, extracted, mongo_query >>
    /\ UNCHANGED << cache_vars, infer_vars, parse_vars >>

\* step 3: validate_ir rewrites the IR in place; a ValueError ends the request
ValidateStep ==
    /\ pc = "validate"
    /\ calls' = Append(calls, "validate_ir")
    /\ given_ir' = ir
    /\ LET r == validate_ir(ir[1], allowed_fields)
       IN  /\ ir' = << r.ir >>
           /\ outcome' = IF r.error = "none" THEN "returned" ELSE r.error
           /\ pc' = AfterValidate(r.error)
           /\ response' = IF r.error = "none" THEN response ELSE Ended(r.error)
    /\ UNCHANGED << endpoint, PARSER_MODE, allowed_fields, field_types, extracted,
                    parser_used, ir_source, mongo_query >>
    /\ UNCHANGED << cache_vars, infer_vars, parse_vars >>

\* step 4: compile_ir_to_mongo, outside any try: what it raises leaves the
\* handler
CompileStep ==
    /\ pc = "compile"
    /\ calls' = Append(calls, "compile_ir_to_mongo")
    /\ IF CompileRaises(ir[1])
       THEN /\ response' = Ended("compile_error")
            /\ pc' = "done"
            /\ UNCHANGED mongo_query
       ELSE /\ mongo_query' = << compile_ir_to_mongo(ir[1]) >>
            /\ pc' = "execute"
            /\ UNCHANGED response
    /\ UNCHANGED << endpoint, PARSER_MODE, allowed_fields, field_types, ir, given_ir,
                    outcome, extracted, parser_used, ir_source >>
    /\ UNCHANGED << cache_vars, infer_vars, parse_vars >>

\* the calls an endpoint makes once it holds a plan: run_nlp reads the
\* indexes and runs execute_query, run_nlp_stream consumes stream_query,
\* diagnose runs execute_query and then reads the indexes
ExecutionCalls(which) ==
    IF which = "run_nlp" THEN << "get_collection_indexes", "execute_query" >>
    ELSE IF which = "run_nlp_stream" THEN << "stream_query" >>
    ELSE << "execute_query", "get_collection_indexes" >>

\* how the request ends when the store answers, times out or fails:
\* run_nlp answers 408 or 500 on a failure; the stream and the diagnosis
\* report it inside a response that was already accepted
AfterExecution(which, store_reply) ==
    IF store_reply = "answered" \/ which = "diagnose" THEN "ok"
    ELSE IF which = "run_nlp_stream" THEN "stream_" \o store_reply
    ELSE store_reply

\* steps 5 to 9: the store is queried with the plan; run_nlp formats the
\* result and tags it with the parser that produced the IR
ExecuteStep ==
    /\ pc = "execute"
    /\ pc' = "done"
    /\ \E store_reply \in { "answered", "timeout", "error" } :
          /\ calls' = calls \o ExecutionCalls(endpoint)
                        \o (IF endpoint = "run_nlp" /\ store_reply = "answered"
                            THEN << "format_response" >> ELSE << >>)
          /\ response' = IF endpoint = "run_nlp" /\ store_reply = "answered"
                         THEN [status |-> "ok", parser_used |-> parser_used]
                         ELSE Ended(AfterExecution(endpoint, store_reply))
    /\ UNCHANGED << endpoint, PARSER_MODE, allowed_fields, field_types, ir, given_ir,
                    outcome, extracted, parser_used, ir_source, mongo_query >>
    /\ UNCHANGED << cache_vars, infer_vars, parse_vars >>

Next ==
    \/ SchemaStep
    \/ LLMStep
    \/ RuleStep
    \/ ValidateStep
    \/ CompileStep
    \/ ExecuteStep

Spec == Init /\ [][Next]_vars

(***************************************************************************)
(* Claims about the request pipeline                                       *)
(***************************************************************************)

Called(name) == \E i \in 1..Len(calls) : calls[i] = name

\* the entries of a list whose field the sanitiser knows
RECURSIVE KnownCount(_, _)
KnownCount(fields, catalog_fields) ==
    IF fields = << >> THEN 0
    ELSE (IF KnownField(Head(fields), catalog_fields) THEN 1 ELSE 0)
         + KnownCount(Tail(fields), catalog_fields)

ConditionFields(some_ir) == [i \in 1..Len(some_ir.conditions) |-> some_ir.conditions[i].field]

ProjectionFields(some_ir) == IF some_ir.projection = << >> THEN << >> ELSE some_ir.projection[1]

\* every field reference of an IR, as validate_ir reads them
References(some_ir) ==
    { ConditionFields(some_ir)[i] : i \in 1..Len(some_ir.conditions) }
    \cup { ProjectionFields(some_ir)[i] : i \in 1..Len(ProjectionFields(some_ir)) }
    \cup (IF some_ir.aggregation # << >> /\ Truthy(some_ir.aggregation[1].field)
          THEN { some_ir.aggregation[1].field } ELSE { })
    \cup (IF some_ir.sort # << >> /\ Truthy(some_ir.sort[1].field)
          THEN { some_ir.sort[1].field } ELSE { })

Succeeded == response.status = "ok"

\* C2 as stated (never silently dropped): on every path from a parser's
\* output to the compiler, model-backed or rule-based, no condition or
\* projection entry is removed from the IR while the request goes on to
\* succeed: a request that succeeds on the model's answer holds as many
\* conditions and projection entries as the answer had.
C2_NeverDropped ==
    (Succeeded /\ ir_source = "llm") =>
        /\ Len(ir[1].conditions) = Len(extracted[1].conditions)
        /\ Len(ProjectionFields(ir[1])) = Len(ProjectionFields(extracted[1]))

\* C2 as amended (unresolved fields fail in validate_ir; the sanitiser of
\* the model-backed path drops): validate_ir removes no condition and no
\* projection entry, and a request whose IR reaches validate_ir with a
\* reference it cannot resolve ends with field-not-found and goes no
\* further; before that, the IR parse_with_llm returns holds exactly as
\* many conditions and projection entries of the model's answer as name a
\* field known to the catalog, the others having been dropped.
C2_UnresolvedFailsInValidation ==
    /\ given_ir # << >> =>
          /\ Len(ir[1].conditions) = Len(given_ir[1].conditions)
          /\ Len(ProjectionFields(ir[1])) = Len(ProjectionFields(given_ir[1]))
          /\ (\E f \in References(given_ir[1]) : resolve_field_name(f, allowed_fields) = None)
                => (response.status = "field_not_found" /\ pc = "done"
                     /\ ~Called("compile_ir_to_mongo"))
    /\ ir_source = "llm" =>
          /\ Len(ir[1].conditions)
                = KnownCount(ConditionFields(extracted[1]), allowed_fields)
          /\ Len(ProjectionFields(ir[1]))
                = KnownCount(ProjectionFields(extracted[1]), allowed_fields)

\* a streamed request that succeeded on the model's answer after one of
\* its two conditions and one of its two projection entries were dropped
C2_Witness ==
    /\ Succeeded
    /\ ir_source = "llm"
    /\ Len(extracted[1].conditions) = 2 /\ Len(ir[1].conditions) = 1
    /\ Len(ProjectionFields(extracted[1])) = 2 /\ Len(ProjectionFields(ir[1])) = 1

\* C4 (unconditional fallback): in every request and for every parser
\* mode, a request in which the model-backed parser was tried ends in
\* ParseFailed only after the rule-based parser was invoked too.
C4_UnconditionalFallback ==
    (response.status = "parse_failed" /\ Called("parse_with_llm")) => Called("parse_to_ir")

\* C5 (provenance tag): a successful run_nlp response carries parser_used,
\* "llm" exactly when the IR it answers was returned by parse_with_llm,
\* "rule-based" exactly when it was returned by parse_to_ir, never "none".
C5_ProvenanceTag ==
    (endpoint = "run_nlp" /\ Succeeded) =>
        /\ response.parser_used \in { "llm", "rule-based" }
        /\ response.parser_used = "llm" <=> ir_source = "llm"
        /\ response.parser_used = "rule-based" <=> ir_source = "rule"

\* a run_nlp request answered from a rule-based IR and tagged so
C5_Witness ==
    /\ endpoint = "run_nlp"
    /\ Succeeded
    /\ ir_source = "rule"
    /\ response.parser_used = "rule-based"
    /\ Called("parse_to_ir")

\* the place of a collaborator in the order of run_nlp
StageRank(name) ==
    CASE name = "get_cached_schema" -> 1
      [] name = "parse_with_llm" -> 2
      [] name = "parse_to_ir" -> 3
      [] name = "validate_ir" -> 4
      [] name = "compile_ir_to_mongo" -> 5
      [] name = "get_collection_indexes" -> 6
      [] name = "execute_query" -> 7
      [] name = "format_response" -> 8

\* the stage a failed request failed in
FailedRank(status) ==
    CASE status \in { "schema_failed", "collection_empty" } -> 1
      [] status = "parse_failed" -> 3
      [] status \in { "field_not_found", "operator_not_allowed" } -> 4
      [] status = "compile_error" -> 5
      [] status \in { "timeout", "error" } -> 7

\* C6 (strict pipeline order in run_nlp): the collaborators are called in
\* the order catalog, parse, validate, compile, execute, each at most once;
\* no parser runs on an empty catalog; validate_ir runs only on an IR a
\* parser returned; the compiler only on an IR validate_ir returned; the
\* store is queried for results only with a compiled plan; and once a stage
\* has failed the request is over and no later stage has run.
C6_PipelineOrder ==
    endpoint = "run_nlp" =>
        /\ \A i, j \in 1..Len(calls) :
              i < j => StageRank(calls[i]) < StageRank(calls[j])
        /\ (Called("parse_with_llm") \/ Called("parse_to_ir")) => allowed_fields # << >>
        /\ Called("validate_ir") => (given_ir # << >> /\ ir_source \in { "llm", "rule" })
        /\ Called("compile_ir_to_mongo") => outcome = "returned"
        /\ Called("execute_query") => mongo_query # << >>
        /\ response.status \notin { "pending", "ok" } =>
              /\ pc = "done"
              /\ \A i \in 1..Len(calls) : StageRank(calls[i]) <= FailedRank(response.status)

\* a run_nlp request that went through every stage, in order
C6_Witness ==
    /\ endpoint = "run_nlp"
    /\ Succeeded
    /\ calls = << "get_cached_schema", "parse_with_llm", "parse_to_ir", "validate_ir",
                  "compile_ir_to_mongo", "get_collection_indexes", "execute_query",
                  "format_response" >>

(***************************************************************************)
(* Claims about the schema cache                                           *)
(***************************************************************************)

Gets == { j \in 1..Len(log) : log[j].op = "get" }

\* the cache key a completed call was about
KeyOf(event) == _cache_key(event.collection)

\* the call left an entry under key k: a get_cached_schema that sampled and
\* stored
Populates(event, k) ==
    event.op = "get" /\ event.sampled /\ event.raised = "none" /\ KeyOf(event) = k

\* the call ended the entry under key k: clear_schema_cache, or an
\* invalidate_schema of that key
Removes(event, k) ==
    event.op = "clear" \/ (event.op = "invalidate" /\ KeyOf(event) = k)

\* the populations of the key of call j that no later call before j ended
LivePopulations(j) ==
    { i \in 1..(j - 1) :
        /\ Populates(log[i], KeyOf(log[j]))
        /\ \A n \in (i + 1)..(j - 1) : ~Removes(log[n], KeyOf(log[j])) }

\* C7 (cache lifetime): in a sequence of calls made one after the other,
\* get_cached_schema(k) samples the store exactly when no population of k
\* is still live, and from the population of k until the next
\* invalidate_schema(k) or clear_schema_cache every get_cached_schema(k)
\* returns the catalog stored at population without sampling; invalidating
\* another key does not end the entry.
C7_CacheLifetime ==
    \A j \in Gets :
        LET live == LivePopulations(j)
        IN  IF live = { }
            THEN log[j].sampled
            ELSE /\ ~log[j].sampled
                 /\ log[j].raised = "none"
                 /\ \A i \in live : log[j].result = log[i].result

\* k is populated, another key is invalidated, and the next
\* get_cached_schema(k) is answered from the cache
C7_Witness ==
    \E i, n, j \in 1..Len(log) :
        /\ i < n /\ n < j
        /\ log[j].op = "get" /\ ~log[j].sampled
        /\ Populates(log[i], KeyOf(log[j]))
        /\ log[n].op = "invalidate" /\ KeyOf(log[n]) # KeyOf(log[j])
        /\ log[j].result = log[i].result

\* C8 (invalidation after writes): a get_cached_schema that begins after a
\* mutation_commit on its collection has ended never returns a catalog of
\* that collection sampled before the commit's write, whatever the
\* interleaving with calls still sampling and also when the commit ended in
\* an error after the store was modified.
C8_InvalidationAfterWrites ==
    \A j \in Gets :
        (log[j].result # << >> /\ log[j].result[1].collection = log[j].collection)
            => log[j].result[1].version >= log[j].after

\* C9 (safe under concurrency): whatever the interleaving with
\* invalidate_schema, clear_schema_cache and other get_cached_schema calls,
\* a get_cached_schema call whose sampling did not fail returns a complete
\* catalog and never fails because of the interleaving.
C9_SafeUnderConcurrency ==
    \A j \in Gets :
        log[j].raised # "sampling"
            => log[j].raised = "none" /\ log[j].result # << >>


(***************************************************************************)
(* Claims about the schema sampling                                        *)
(***************************************************************************)

\* every call of _detect_type get_collection_schema makes for the
\* documents: the walk over each raw document and its flattened fields
RECURSIVE ObservationsOf(_)
ObservationsOf(sampled) ==
    IF sampled = << >> THEN { }
    ELSE LET walked == _detect_field_types_recursive(Head(sampled), << >>)
             flattened == flatten_document(Head(sampled), << >>)
         IN  { walked[i] : i \in 1..Len(walked) }
             \cup { Observation(flattened[i].path, _detect_type(flattened[i].value)) :
                        i \in 1..Len(flattened) }
             \cup ObservationsOf(Tail(sampled))

RanksAt(observations, path) ==
    { _type_priority(o.ftype) : o \in { x \in observations : x.path = path } }

\* no step lowers the rank of the type recorded for a path, or forgets it
RankNeverDecreases ==
    \A path \in DOMAIN schema_field_types :
        /\ path \in DOMAIN schema_field_types'
        /\ _type_priority(schema_field_types'[path])
               >= _type_priority(schema_field_types[path])

\* the returned field_types holds every observed path, at the highest rank
\* any observation of it had
FinalRankIsMaximum ==
    infer_pc = "returned" =>
        LET observations == ObservationsOf(docs)
            types == schema_result[1].field_types
        IN  /\ DOMAIN types = { o.path : o \in observations }
            /\ \A path \in DOMAIN types :
                   _type_priority(types[path]) = MaxOf(RanksAt(observations, path))

\* C10 (type-lattice monotonicity): while get_collection_schema processes
\* the sampled documents in order, the precedence rank of the type recorded
\* for a field-path never decreases, and the final rank of each path is the
\* maximum rank over all observations of that path, whatever the order of
\* the documents.
C10_TypeLatticeMonotonicity ==
    [][RankNeverDecreases]_vars /\ []FinalRankIsMaximum

\* a path was seen at a higher rank in an earlier document than in a later
\* one, and the schema has been returned
C10_Witness ==
    /\ infer_pc = "returned"
    /\ \E i, j \in 1..Len(docs) :
          /\ i < j
          /\ \E o \in ObservationsOf(<< docs[i] >>), q \in ObservationsOf(<< docs[j] >>) :
                /\ o.path = q.path
                /\ _type_priority(o.ftype) > _type_priority(q.ftype)
                /\ _type_priority(schema_result[1].field_types[o.path])
                       >= _type_priority(o.ftype)

(***************************************************************************)
(* parse_to_ir called on one text and catalog                              *)
(***************************************************************************)

InitParse ==
    /\ user_input \in Texts
    /\ schema \in ParseCatalogs
    /\ clock = Clocks[1]
    /\ hash_order = HashOrders[1]
    /\ parsed = << >>
    /\ ValidateIdle
    /\ PipelineIdle
    /\ CacheIdle
    /\ InferIdle

\* one call of parse_to_ir(user_input, allowed_fields, numeric_fields)
ParseCall ==
    /\ Len(parsed) < MaxRuns
    /\ parsed' = Append(parsed, parse_to_ir(user_input, schema, clock, hash_order))
    /\ UNCHANGED << user_input, schema, clock, hash_order >>
    /\ UNCHANGED << validate_vars, pipeline_vars, cache_vars, infer_vars >>

\* time passes between two calls
Tick ==
    /\ \E i \in 1..(Len(Clocks) - 1) : clock = Clocks[i] /\ clock' = Clocks[i + 1]
    /\ UNCHANGED << user_input, schema, hash_order, parsed >>
    /\ UNCHANGED << validate_vars, pipeline_vars, cache_vars, infer_vars >>

\* the service is started anew between two calls
Restart ==
    /\ \E i \in 1..Len(HashOrders) : hash_order # HashOrders[i] /\ hash_order' = HashOrders[i]
    /\ UNCHANGED << user_input, schema, clock, parsed >>
    /\ UNCHANGED << validate_vars, pipeline_vars, cache_vars, infer_vars >>

NextParse ==
    \/ ParseCall
    \/ Tick
    \/ Restart

SpecParse == InitParse /\ [][NextParse]_vars

(***************************************************************************)
(* Claims about the rule-based parser                                      *)
(***************************************************************************)

\* C11: the rule-based parser never raises: whatever the text and the
\* catalog, a call of parse_to_ir comes to an IR or to None, never to an
\* exception.
C11_ParserNeverRaises ==
    \A run \in 1..Len(parsed) : ~parsed[run].raised


\* C12: two runs of parse_to_ir on the same text and catalog return the same
\* result, whenever each run happens and whatever order the keyword sets are
\* iterated in.
C12_ParserDeterminism ==
    \A first \in 1..Len(parsed) : \A second \in 1..Len(parsed) :
        parsed[first] = parsed[second]

\* the IRs the calls so far returned
ReturnedIRs == { parsed[run].ir[1] : run \in { n \in 1..Len(parsed) : parsed[n].ir # << >> } }

\* C13: parse_to_ir never returns an aggregate IR whose aggregation is an
\* avg, sum, max or min of no field.
C13_NoNullAggregateTarget ==
    \A returned \in ReturnedIRs :
        ~ /\ returned.operation = "aggregate"
          /\ returned.aggregation # << >>
          /\ returned.aggregation[1].type \in { "avg", "sum", "max", "min" }
          /\ returned.aggregation[1].field = None
(***************************************************************************)
(* compile_ir_to_mongo applied to every validated IR of the pools          *)
(***************************************************************************)

InitCompile ==
    /\ ir \in { << validated_ir >> : validated_ir \in CompileIRs }
    /\ field_types \in CompileTypes
    /\ pc = "compile"
    /\ allowed_fields = << >>
    /\ given_ir = << >>
    /\ outcome = "returned"
    /\ endpoint = "none"
    /\ PARSER_MODE = "auto"
    /\ extracted = << >>
    /\ parser_used = "none"
    /\ ir_source = "none"
    /\ calls = << >>
    /\ mongo_query = << >>
    /\ response = Pending
    /\ CacheIdle
    /\ InferIdle
    /\ ParseIdle

\* compile_ir_to_mongo(validated_ir, field_types=field_types)
CompileCall ==
    /\ pc = "compile"
    /\ ~CompileRaises(ir[1])
    /\ calls' = Append(calls, "compile_ir_to_mongo")
    /\ mongo_query' = << CompiledQuery(ir[1], field_types) >>
    /\ pc' = "done"
    /\ UNCHANGED << endpoint, PARSER_MODE, allowed_fields, field_types, ir, given_ir,
                    outcome, extracted, parser_used, ir_source, response >>
    /\ UNCHANGED << cache_vars, infer_vars, parse_vars >>

NextCompile == CompileCall

SpecCompile == InitCompile /\ [][NextCompile]_vars

(***************************************************************************)
(* Claims about the compiler                                               *)
(***************************************************************************)

\* a find over one condition has been compiled: its filter is what the
\* condition compiles to
CompiledOne ==
    /\ pc = "done"
    /\ mongo_query # << >>
    /\ ir[1].operation = "find"
    /\ Len(ir[1].conditions) = 1

TheCondition == ir[1].conditions[1]

\* the native representations of a text the claim lists: the text itself,
\* the integer it reads as, the 24-hex identifier it spells
Representations(text) ==
    << Match(s__id, StrValue(text)) >>
    \o (IF IsIntLiteral(text) THEN << Match(s__id, [t |-> "int", v |-> IntDigits(text)]) >>
        ELSE << >>)
    \o (IF IsObjectIdText(text) THEN << Match(s__id, ObjectIdValue(text)) >> ELSE << >>)

\* C15 (identifier disjunction): a condition on _id with operator eq or
\* contains compiles to the disjunction of the value as the string given,
\* as an integer when the text reads as one, and as the 24-hex identifier
\* when the text is 24 hex characters; a single representation stands
\* without the disjunction.
C15_IdentifierDisjunction ==
    ( /\ CompiledOne
      /\ TheCondition.field = s__id
      /\ TheCondition.operator \in { "eq", "contains" }
      /\ TheCondition.value.t \in { "str", "int" } )
    => LET representations == Representations(StrOf(TheCondition.value))
       IN  mongo_query[1].filter =
               IF Len(representations) = 1 THEN representations[1]
               ELSE Junction("$or", representations)

\* the format of _DATE_FORMATS that reads the text first, << >> when none
\* does
RECURSIVE FormatRead(_, _)
FormatRead(val, formats) ==
    IF formats = << >> THEN << >>
    ELSE IF strptime(val, Head(formats)) # << >> THEN << Head(formats) >>
    ELSE FormatRead(val, Tail(formats))

\* the text is written with a time of day
GivenWithTime(text) ==
    \E i \in 1..Len(FormatRead(Strip(text), _DATE_FORMATS)[1]) :
        FormatRead(Strip(text), _DATE_FORMATS)[1][i] = "%H"

\* an eq condition on a date field whose value is a text that reads as a
\* date has been compiled
CompiledDateEq ==
    /\ CompiledOne
    /\ TheCondition.operator = "eq"
    /\ TheCondition.field # s__id
    /\ TypeOf(field_types, TheCondition.field) = "date"
    /\ TheCondition.value.t = "str"
    /\ FormatRead(Strip(TheCondition.value.v), _DATE_FORMATS) # << >>

\* C16 (date widening): an eq condition on a date field compiles to the
\* inclusive range from 00:00:00 to 23:59:59.999999 of the day exactly when
\* the value is given without a time of day; a value given with a time of
\* day, midnight included, compiles to a match of that instant.
C16_DateWidening ==
    CompiledDateEq =>
        LET instant == _parse_date_value(TheCondition.value)
        IN  mongo_query[1].filter =
                IF GivenWithTime(TheCondition.value.v)
                THEN Match(TheCondition.field, instant)
                ELSE Match(TheCondition.field, Between(instant, DayEnd(instant)))

\* C18 (eq on a string field): an eq condition with a string value on a
\* field other than _id whose catalog type is string compiles to a
\* case-insensitive match of the whole value, the regular expression of the
\* escaped value between ^ and $, a value of 24 hex characters included.
C18_StringEqIsWholeValueMatch ==
    ( /\ CompiledOne
      /\ TheCondition.operator = "eq"
      /\ TheCondition.field # s__id
      /\ TypeOf(field_types, TheCondition.field) = "string"
      /\ TheCondition.value.t = "str" )
    => mongo_query[1].filter =
           Match(TheCondition.field,
                 Regex(<< "^" >> \o re_escape(TheCondition.value.v) \o << "$" >>))
(***************************************************************************)
(* One request from its text to its plan: both parsers, validate_ir and    *)
(* compile_ir_to_mongo as they are                                         *)
(***************************************************************************)

InitPlan ==
    /\ endpoint \in Endpoints
    /\ PARSER_MODE \in ParserModes
    /\ user_input \in Texts
    /\ \E catalog \in PlanCatalogs :
          /\ allowed_fields = catalog.allowed_fields
          /\ field_types = catalog.field_types
          /\ schema = ParseCatalog(catalog.allowed_fields, catalog.numeric_fields)
    /\ clock = Clocks[1]
    /\ hash_order = HashOrders[1]
    /\ parsed = << >>
    /\ pc = "llm"
    /\ ir = << >>
    /\ given_ir = << >>
    /\ outcome = "pending"
    /\ extracted = << >>
    /\ parser_used = "none"
    /\ ir_source = "none"
    /\ calls = << "get_cached_schema" >>
    /\ mongo_query = << >>
    /\ response = Pending
    /\ CacheIdle
    /\ InferIdle

\* step 2, first half: parse_with_llm on the answer the model gives, when
\* the mode asks for it; whatever it raises is swallowed
AnswerStep ==
    /\ pc = "llm"
    /\ pc' = "rule"
    /\ IF TriesLLM(PARSER_MODE)
       THEN /\ calls' = Append(calls, "parse_with_llm")
            /\ \E o \in AnswerOutcomes(endpoint, ModelAnswers, allowed_fields, field_types) :
                  /\ ir' = o.ir
                  /\ extracted' = o.extracted
                  /\ parser_used' = IF endpoint = "run_nlp_stream" THEN parser_used
                                    ELSE TagAfterLLM(o.ir, parser_used)
                  /\ ir_source' = IF o.ir # << >> THEN "llm" ELSE ir_source
       ELSE UNCHANGED << calls, ir, extracted, parser_used, ir_source >>
    /\ UNCHANGED << endpoint, PARSER_MODE, allowed_fields, field_types, given_ir,
                    outcome, mongo_query, response >>
    /\ UNCHANGED << cache_vars, infer_vars, parse_vars >>

\* step 2, second half: parse_to_ir on the request's text, when there is no
\* IR yet and the mode asks for it; what it raises leaves the handler, and
\* the request ends if there is still no IR
TextStep ==
    /\ pc = "rule"
    /\ IF TriesRule(ir, PARSER_MODE)
       THEN /\ calls' = Append(calls, "parse_to_ir")
            /\ parsed' = Append(parsed, parse_to_ir(user_input, schema, clock, hash_order))
            /\ ir' = parsed'[Len(parsed')].ir
            /\ parser_used' = IF endpoint = "run_nlp_stream" THEN parser_used
                              ELSE TagAfterRule(ir', parser_used)
            /\ ir_source' = IF ir' # << >> THEN "rule" ELSE ir_source
       ELSE UNCHANGED << calls, parsed, ir, parser_used, ir_source >>
    /\ IF parsed' # << >> /\ parsed'[Len(parsed')].raised
       THEN response' = Ended("parse_error") /\ pc' = "done"
       ELSE IF ir' = << >>
       THEN response' = Ended("parse_failed") /\ pc' = "done"
       ELSE response' = response /\ pc' = "validate"
    /\ UNCHANGED << endpoint, PARSER_MODE, allowed_fields, field_types, given_ir,
                    outcome, extracted, mongo_query >>
    /\ UNCHANGED << user_input, schema, clock, hash_order >>
    /\ UNCHANGED << cache_vars, infer_vars >>

\* step 4: compile_ir_to_mongo(validated_ir, field_types=field_types), outside
\* any try: what it raises leaves the handler
PlanStep ==
    /\ pc = "compile"
    /\ calls' = Append(calls, "compile_ir_to_mongo")
    /\ IF CompileRaises(ir[1])
       THEN /\ response' = Ended("compile_error")
            /\ pc' = "done"
            /\ UNCHANGED mongo_query
       ELSE /\ mongo_query' = << CompiledQuery(ir[1], field_types) >>
            /\ pc' = "execute"
            /\ UNCHANGED response
    /\ UNCHANGED << endpoint, PARSER_MODE, allowed_fields, field_types, ir, given_ir,
                    outcome, extracted, parser_used, ir_source >>
    /\ UNCHANGED << cache_vars, infer_vars, parse_vars >>

NextPlan ==
    \/ AnswerStep
    \/ TextStep
    \/ ValidateStep
    \/ PlanStep
    \/ ExecuteStep

SpecPlan == InitPlan /\ [][NextPlan]_vars

(***************************************************************************)
(* Claims about the way from the parsers to the plan                       *)
(***************************************************************************)

\* the IR a parser returned has been handed to validate_ir
Handed == given_ir # << >>

\* the IR handed to validate_ir is a count
CountIntent ==
    /\ Handed
    /\ given_ir[1].operation = "aggregate"
    /\ given_ir[1].aggregation # << >>
    /\ given_ir[1].aggregation[1].type = "count"
    /\ \/ ir_source = "rule" /\ given_ir[1].aggregation[1].field = None
       \/ ir_source = "llm" /\ given_ir[1].aggregation[1].field = s_star

LastStage == mongo_query[1].pipeline[Len(mongo_query[1].pipeline)]

\* C14 (aggregation round trip): a count intent of either parser, with the
\* field null from the rule-based parser and "*" from the model-backed one,
\* passes validate_ir and compiles to an aggregate plan whose last stage is
\* the count accumulator, with a match stage before it exactly when the IR
\* has conditions.
C14_CountRoundTrip ==
    CountIntent =>
        /\ outcome = "returned"
        /\ mongo_query # << >> =>
              /\ mongo_query[1].type = "aggregate"
              /\ LastStage = Stage("$count", << "result" >>)
              /\ Len(mongo_query[1].pipeline) = IF ir[1].conditions # << >> THEN 2 ELSE 1
              /\ ir[1].conditions # << >> => mongo_query[1].pipeline[1].stage = "$match"

\* the conditions a plan matches on: those of a find's filter, or of the
\* match stage of a pipeline that has one
PlanFilter ==
    IF mongo_query[1].type = "find" THEN mongo_query[1].filter
    ELSE IF mongo_query[1].pipeline[1].stage = "$match" THEN mongo_query[1].pipeline[1].body[1]
    ELSE EmptyFilter

PlanClauses == IF PlanFilter.kind = "match" THEN << PlanFilter >> ELSE PlanFilter.clauses

\* a regular expression that is not anchored at both ends matches a
\* substring
IsSubstringMatch(expr) ==
    /\ expr.t = "$regex"
    /\ ~(Len(expr.v) >= 2 /\ expr.v[1] = "^" /\ expr.v[Len(expr.v)] = "$")

SubstringOnDate ==
    \E i \in 1..Len(PlanClauses) :
        /\ PlanClauses[i].kind = "match"
        /\ TypeOf(field_types, PlanClauses[i].field) = "date"
        /\ IsSubstringMatch(PlanClauses[i].expr[1])

\* C17 (contains is never applied to date fields): the plan compiled from a
\* validated IR of either parser holds no substring match, a regular
\* expression, on a field whose catalog type is date: contains on a date
\* field has become eq before or during compilation.
C17_NoSubstringOnDate ==
    mongo_query # << >> => ~SubstringOnDate

\* the answer lacks a required key: the operation, the conditions, or the
\* field, the operator or the value of a condition
LacksRequiredKey(answer) ==
    \/ "operation" \in answer.absent
    \/ "conditions" \in answer.absent
    \/ \E i \in 1..Len(answer.body.conditions) : answer.body.conditions[i].absent # { }

PastParsing == pc \notin { "llm", "rule" }

\* C19 (fallback correctness): a model-backed result that lacks a required
\* key never becomes the request's IR: parse_with_llm returns None or
\* raises, the rule-based parser is called, and what it returns, if
\* anything, is the IR, tagged "rule-based".
C19_FallbackCorrectness ==
    (extracted # << >> /\ LacksRequiredKey(extracted[1])) =>
        /\ ir_source # "llm"
        /\ PastParsing => Called("parse_to_ir")
        /\ (PastParsing /\ ir # << >>) =>
              /\ ir_source = "rule"
              /\ endpoint # "run_nlp_stream" => parser_used = "rule-based"

IROperators == { "eq", "ne", "gt", "gte", "lt", "lte", "in", "contains", "exists" }

OperatorsOf(some_ir) ==
    { some_ir[1].conditions[i].operator : i \in 1..Len(some_ir[1].conditions) }

\* C20 (operator-not-allowed is unreachable): every condition of every IR
\* that parse_to_ir or parse_with_llm returns has one of the nine operators
\* of the IR, the parser's own "between" having become gte and lte, and
\* validate_ir never raises operator-not-allowed on such an IR.
C20_OperatorNotAllowedUnreachable ==
    /\ \A run \in 1..Len(parsed) :
          parsed[run].ir # << >> => OperatorsOf(parsed[run].ir) \subseteq IROperators
    /\ ir # << >> => OperatorsOf(ir) \subseteq IROperators
    /\ outcome # "operator_not_allowed"

\* the rule-based parser read "between 1 and 5" as gte and lte on one field,
\* and validate_ir returned the IR
C20_Witness ==
    /\ outcome = "returned"
    /\ ir_source = "rule"
    /\ \E i \in 1..Len(user_input) : user_input[i] = w_between
    /\ Len(ir[1].conditions) = 2
    /\ ir[1].conditions[1].operator = "gte"
    /\ ir[1].conditions[2].operator = "lte"
    /\ ir[1].conditions[1].field = ir[1].conditions[2].field
(***************************************************************************)
(* The catalog cache: what a lookup hands back                             *)
(***************************************************************************)

\* the get_cached_schema calls that came back with a catalog
Answered == { i \in 1..Len(log) : log[i].op = "get" /\ log[i].result # << >> }

\* C21 (cache keying): a catalog that get_cached_schema returns for a triple
\* (connection, database, collection) was sampled from that same triple;
\* requests whose triples differ never share a cache entry.
C21_CacheKeying ==
    \A i \in Answered : log[i].result[1].collection = log[i].collection

(***************************************************************************)
(* The rule-based parser: "top N <noun> by <field>"                        *)
(***************************************************************************)

\* the request text reads "top N <noun> by <field>" and <field> is a
\* field-path of the catalog
TopNByField ==
    /\ Len(user_input) = 5
    /\ user_input[1] = w_top
    /\ AllDigits(user_input[2])
    /\ user_input[4] = w_by
    /\ InSeq(user_input[5], schema.allowed_fields)

\* C22 ("top N <noun> by <field>"): on a text of that shape, for every
\* catalog that holds <field>, parse_to_ir returns an IR whose sort is
\* {<field>, desc} and whose limit is N.
C22_TopNByField ==
    \A run \in 1..Len(parsed) :
        TopNByField =>
            /\ ~parsed[run].raised
            /\ parsed[run].ir # << >>
            /\ parsed[run].ir[1].sort = SortBy(user_input[5], "desc")
            /\ parsed[run].ir[1].limit = << IntOf(user_input[2]) >>

(***************************************************************************)
(* The sampled schema: numeric fields and the type map                     *)
(***************************************************************************)

\* C29 (numeric set agrees with the type map): in the catalog
\* get_collection_schema returns, each path of the numeric-field set is a
\* field-path of the catalog and has merged type int or float in
\* field_types.
C29_NumericAgreesWithTypes ==
    infer_pc = "returned" =>
        \A i \in 1..Len(schema_result[1].numeric_fields) :
            /\ InSeq(schema_result[1].numeric_fields[i], schema_result[1].allowed_fields)
            /\ schema_result[1].numeric_fields[i] \in DOMAIN schema_result[1].field_types
            /\ schema_result[1].field_types[schema_result[1].numeric_fields[i]]
                   \in { "int", "float" }

(***************************************************************************)
(* Field references from the sampled catalog to the plan: validate_ir on   *)
(* an IR, on its own result, and compile_ir_to_mongo on what it returned   *)
(***************************************************************************)

InitReference ==
    /\ \E sampled \in ReferenceSamples :
          /\ allowed_fields = SampledCatalog(sampled).allowed_fields
          /\ field_types = SampledCatalog(sampled).field_types
    /\ ir \in { << some_ir >> : some_ir \in ReferenceIRs }
    /\ given_ir = ir
    /\ outcome = "pending"
    /\ endpoint = "none"
    /\ PARSER_MODE = "auto"
    /\ pc = "idle"
    /\ extracted = << >>
    /\ parser_used = "none"
    /\ ir_source = "none"
    /\ calls = << >>
    /\ mongo_query = << >>
    /\ response = Pending
    /\ CacheIdle
    /\ InferIdle
    /\ ParseIdle

\* validate_ir called on the IR one of its calls returned
Revalidate ==
    /\ outcome = "returned"
    /\ given_ir' = ir
    /\ LET r == validate_ir(ir[1], allowed_fields)
       IN  /\ ir' = << r.ir >>
           /\ outcome' = IF r.error = "none" THEN "returned_again" ELSE "raised_again"
    /\ UNCHANGED << allowed_fields, pipeline_vars, cache_vars, infer_vars, parse_vars >>

\* compile_ir_to_mongo(validated_ir, field_types=field_types) on the IR
\* validate_ir returned
CompileValidated ==
    /\ outcome = "returned"
    /\ mongo_query = << >>
    /\ mongo_query' = << CompiledQuery(ir[1], field_types) >>
    /\ UNCHANGED << endpoint, PARSER_MODE, field_types, pc, extracted, parser_used,
                    ir_source, calls, response >>
    /\ UNCHANGED << validate_vars, cache_vars, infer_vars, parse_vars >>

NextReference ==
    \/ ValidateCall
    \/ Revalidate
    \/ CompileValidated

SpecReference == InitReference /\ [][NextReference]_vars

(***************************************************************************)
(* Claims about field references                                           *)
(***************************************************************************)

\* path is a dotted path under the reference: the reference, a dot, and more
IsChildOf(path, reference) ==
    /\ Len(path) > Len(reference) + 1
    /\ Lower(SubSeq(path, 1, Len(reference))) = Lower(reference)
    /\ path[Len(reference) + 1] = "."

\* the first validate_ir call is over
Validated == outcome \in { "returned", "field_not_found", "operator_not_allowed" }

\* C23 (no parent-prefix resolution): a reference that is a parent prefix
\* of a dotted catalog path, such as "options" against a catalog holding
\* only "options.id", is never resolved to that child path by the
\* validator.
C23_NoParentPrefixResolution ==
    Validated =>
        \A i \in 1..Len(ir[1].conditions) :
            ~IsChildOf(ir[1].conditions[i].field, given_ir[1].conditions[i].field)

\* C24 (validation is idempotent): when validate_ir(ir, catalog) returns v,
\* validate_ir(v, catalog) returns an IR equal to v.
C24_ValidationIdempotent ==
    outcome \in { "returned_again", "raised_again" } =>
        /\ outcome = "returned_again"
        /\ ir = given_ir

\* the conditions a compiled find matches on
CompiledClauses ==
    IF mongo_query[1].filter.kind = "match" THEN << mongo_query[1].filter >>
    ELSE mongo_query[1].filter.clauses

\* the plan holds what _build_id_filter returns: a match on _id itself or a
\* disjunction of such matches
IdentifierBranchTaken ==
    \E i \in 1..Len(CompiledClauses) :
        CompiledClauses[i].kind = "$or" \/ CompiledClauses[i].field = s__id

\* C27 (the identifier branch is unreachable through the pipeline): the
\* sampled catalog never holds the top-level path _id, no IR validate_ir
\* returned has a condition whose field is exactly _id, and the plan
\* compiled from such an IR never comes from the compiler's identifier
\* branch.
C27_IdentifierBranchUnreachable ==
    /\ ~InSeq(s__id, allowed_fields)
    /\ outcome \in { "returned", "returned_again" } =>
          \A i \in 1..Len(ir[1].conditions) : ir[1].conditions[i].field # s__id
    /\ mongo_query # << >> => ~IdentifierBranchTaken

\* a request naming _id was validated, its reference rewritten to another
\* path of the catalog, and compiled
C27_Witness ==
    /\ outcome = "returned"
    /\ mongo_query # << >>
    /\ \E i \in 1..Len(given_ir[1].conditions) :
          /\ given_ir[1].conditions[i].field = s__id
          /\ ir[1].conditions[i].field # s__id
          /\ InSeq(ir[1].conditions[i].field, allowed_fields)

\* a request naming _id that failed with field-not-found
C27_NotFound ==
    /\ outcome = "field_not_found"
    /\ Len(given_ir[1].conditions) >= 1
    /\ given_ir[1].conditions[1].field = s__id
    /\ ir = given_ir

(***************************************************************************)
(* validate_ir on the caller's dict: what a raise leaves behind            *)
(***************************************************************************)

\* the conditions whose field resolves to nothing against the catalog
Unresolved ==
    { i \in 1..Len(given_ir[1].conditions) :
        resolve_field_name(given_ir[1].conditions[i].field, allowed_fields) = None }

\* the number of conditions validate_ir rewrote before it raised, or all of
\* them when it raised later
RewrittenConditions ==
    IF Unresolved = { } THEN Len(given_ir[1].conditions) ELSE MinOf(Unresolved) - 1

\* the aggregation field was reached and resolved
AggregationRewritten ==
    /\ Unresolved = { }
    /\ given_ir[1].aggregation # << >>
    /\ Truthy(given_ir[1].aggregation[1].field)
    /\ resolve_field_name(given_ir[1].aggregation[1].field, allowed_fields) # None

\* the aggregation field was passed without a raise
AggregationPassed ==
    /\ Unresolved = { }
    /\ \/ given_ir[1].aggregation = << >>
       \/ ~Truthy(given_ir[1].aggregation[1].field)
       \/ AggregationRewritten

\* the sort field was reached and resolved
SortRewritten ==
    /\ AggregationPassed
    /\ given_ir[1].sort # << >>
    /\ Truthy(given_ir[1].sort[1].field)
    /\ resolve_field_name(given_ir[1].sort[1].field, allowed_fields) # None

\* C30 (failed validation is not rolled back): when validate_ir raises at a
\* field reference, every condition, aggregation and sort field before
\* that point keeps its rewritten catalog path in the caller's IR, while
\* the failing reference, everything after it, the projection list and the
\* limit keep their original values.
C30_FailedValidationNotRolledBack ==
    outcome = "field_not_found" =>
        /\ \A i \in 1..Len(given_ir[1].conditions) :
              ir[1].conditions[i] =
                 IF i <= RewrittenConditions
                 THEN [given_ir[1].conditions[i] EXCEPT
                          !.field = resolve_field_name(given_ir[1].conditions[i].field,
                                                       allowed_fields)]
                 ELSE given_ir[1].conditions[i]
        /\ Len(ir[1].conditions) = Len(given_ir[1].conditions)
        /\ ir[1].aggregation =
              IF AggregationRewritten
              THEN Aggregation(given_ir[1].aggregation[1].type,
                               resolve_field_name(given_ir[1].aggregation[1].field,
                                                  allowed_fields))
              ELSE given_ir[1].aggregation
        /\ ir[1].sort =
              IF SortRewritten
              THEN SortBy(resolve_field_name(given_ir[1].sort[1].field, allowed_fields),
                          given_ir[1].sort[1].direction)
              ELSE given_ir[1].sort
        /\ ir[1].projection = given_ir[1].projection
        /\ ir[1].limit = given_ir[1].limit
        /\ ir[1].operation = given_ir[1].operation

\* validate_ir raised at the second condition: the first one is left
\* rewritten, the limit above the cap and the projection are as given
C30_Witness ==
    /\ outcome = "field_not_found"
    /\ Len(given_ir[1].conditions) = 2
    /\ RewrittenConditions = 1
    /\ ir[1].conditions[1].field # given_ir[1].conditions[1].field
    /\ ir[1].conditions[2] = given_ir[1].conditions[2]
    /\ ir[1].limit = << MAX_LIMIT + 1 >>
    /\ ir[1].projection # << >>

(***************************************************************************)
(* execute_query called for page 1, 2, 3, ... of one plan                  *)
(***************************************************************************)

\* docs holds what the store yields for the plan, calls the execute_query
\* calls made so far with what each came to
InitPages ==
    /\ \E plan \in PagePlans, n \in MatchCounts :
          /\ mongo_query = << plan >>
          /\ docs = Found(plan, n)
    /\ calls = << >>
    /\ endpoint = "none"
    /\ PARSER_MODE = "auto"
    /\ field_types = << >>
    /\ pc = "execute"
    /\ extracted = << >>
    /\ parser_used = "none"
    /\ ir_source = "none"
    /\ response = Pending
    /\ doc_index = 0
    /\ infer_pc = "idle"
    /\ detecting = << >>
    /\ flat = << >>
    /\ all_fields = { }
    /\ numeric_fields = { }
    /\ schema_field_types = << >>
    /\ schema_result = << >>
    /\ ValidateIdle
    /\ CacheIdle
    /\ ParseIdle

\* one page size for all the pages of a client
SamePageSize(page_size) ==
    IF calls = << >> THEN TRUE ELSE page_size = calls[1].page_size

\* execute_query(..., mongo_query, page=page, page_size=page_size) for the
\* next page
ExecutePage ==
    /\ Len(calls) < MaxPages
    /\ \E page_size \in PageSizes :
          /\ SamePageSize(page_size)
          /\ calls' = Append(calls,
                        [page_size |-> page_size, raised |-> "none",
                         result |-> << execute_query(mongo_query[1], Len(calls) + 1,
                                                     page_size, docs) >>])
    /\ UNCHANGED << endpoint, PARSER_MODE, field_types, pc, extracted, parser_used,
                    ir_source, mongo_query, response >>
    /\ UNCHANGED << docs, doc_index, infer_pc, detecting, flat, all_fields, numeric_fields,
                    schema_field_types, schema_result >>
    /\ UNCHANGED << validate_vars, cache_vars, parse_vars >>

\* lines 145-146: the store exceeds maxTimeMS and the call raises
\* TimeoutError
PageTimesOut ==
    /\ Len(calls) < MaxPages
    /\ \E page_size \in PageSizes :
          /\ SamePageSize(page_size)
          /\ calls' = Append(calls,
                        [page_size |-> page_size, raised |-> "TimeoutError",
                         result |-> << >>])
    /\ UNCHANGED << endpoint, PARSER_MODE, field_types, pc, extracted, parser_used,
                    ir_source, mongo_query, response >>
    /\ UNCHANGED << docs, doc_index, infer_pc, detecting, flat, all_fields, numeric_fields,
                    schema_field_types, schema_result >>
    /\ UNCHANGED << validate_vars, cache_vars, parse_vars >>

NextPages ==
    \/ ExecutePage
    \/ PageTimesOut

SpecPages == InitPages /\ [][NextPages]_vars

\* the documents the first n calls returned, all pages together
RECURSIVE ReturnedUpTo(_)
ReturnedUpTo(n) ==
    IF n = 0 THEN 0
    ELSE ReturnedUpTo(n - 1)
         + (IF calls[n].result = << >> THEN 0 ELSE Len(calls[n].result[1].data))

\* C25 (IR limit across pages): for a find plan whose limit is L > 0, the
\* documents returned over the pages 1, 2, 3, ... never number more than
\* min(L, 100), and total_count never exceeds min(L, 100).
C25_LimitAcrossPages ==
    (mongo_query[1].type = "find" /\ EffectiveLimit(mongo_query[1].limit) # << >>) =>
        /\ ReturnedUpTo(Len(calls)) <= EffectiveLimit(mongo_query[1].limit)[1]
        /\ \A n \in 1..Len(calls) :
              calls[n].result # << >> =>
                  calls[n].result[1].total_count <= EffectiveLimit(mongo_query[1].limit)[1]


(***************************************************************************)
(* One call of parse_with_llm: the checks before the loop, the loop over   *)
(* the attempts, and what is made of the answer                            *)
(***************************************************************************)

\* calls holds the passes of the loop made so far, extracted the answer of
\* the model, ir what parse_with_llm returns, outcome how the call went
InitRetry ==
    /\ \E catalog \in PlanCatalogs :
          /\ allowed_fields = catalog.allowed_fields
          /\ field_types = catalog.field_types
    /\ ir = << >>
    /\ given_ir = << >>
    /\ outcome = "pending"
    /\ endpoint = "run_nlp_stream"
    /\ PARSER_MODE = "llm"
    /\ pc = "llm_start"
    /\ extracted = << >>
    /\ parser_used = "none"
    /\ ir_source = "none"
    /\ calls = << >>
    /\ mongo_query = << >>
    /\ response = Pending
    /\ CacheIdle
    /\ InferIdle
    /\ ParseIdle

\* lines 464-471: no API key, or no client, and parse_with_llm returns None
\* before the loop
StartLLM ==
    /\ pc = "llm_start"
    /\ \E ready \in { "no_key", "no_client", "ready" } :
          IF ready = "ready"
          THEN pc' = "llm_attempt" /\ UNCHANGED outcome
          ELSE pc' = "done" /\ outcome' = ready
    /\ UNCHANGED << ir, allowed_fields, given_ir >>
    /\ UNCHANGED << endpoint, PARSER_MODE, field_types, extracted, parser_used, ir_source,
                    calls, mongo_query, response >>
    /\ UNCHANGED << cache_vars, infer_vars, parse_vars >>

\* lines 483-502: a pass of the loop whose try block raises nothing: the
\* answer is kept and the loop is left
ModelAnswers_Step(answer) ==
    /\ extracted' = << answer >>
    /\ calls' = Append(calls, Pass(Len(calls), << >>, 0))
    /\ pc' = "llm_extract"
    /\ UNCHANGED outcome

\* lines 503-515: a pass whose try block raises: a wait and the next pass,
\* or None at once
ModelFails_Step(err_str) ==
    IF Retries(err_str, Len(calls))
    THEN /\ calls' = Append(calls, Pass(Len(calls), << err_str >>, Backoff(Len(calls))))
         /\ pc' = "llm_sleep"
         /\ UNCHANGED << extracted, outcome >>
    ELSE /\ calls' = Append(calls, Pass(Len(calls), << err_str >>, 0))
         /\ pc' = "done"
         /\ outcome' = "failed"
         /\ UNCHANGED extracted

\* a pass of the loop, for an attempt of range(max_retries + 1)
AttemptLLM ==
    /\ pc = "llm_attempt"
    /\ Len(calls) \in LoopAttempts
    /\ \/ \E answer \in ModelAnswers : ModelAnswers_Step(answer)
       \/ \E err_str \in ErrorTexts : ModelFails_Step(err_str)
    /\ UNCHANGED << ir, allowed_fields, given_ir >>
    /\ UNCHANGED << endpoint, PARSER_MODE, field_types, parser_used, ir_source,
                    mongo_query, response >>
    /\ UNCHANGED << cache_vars, infer_vars, parse_vars >>

\* lines 512-513, 517-518: time.sleep(wait) returns and the loop goes on
\* with the next attempt if range(max_retries + 1) has one; when it has
\* none there is no answer, and parse_with_llm returns None
SleepLLM ==
    /\ pc = "llm_sleep"
    /\ IF Len(calls) \in LoopAttempts
       THEN pc' = "llm_attempt" /\ UNCHANGED outcome
       ELSE pc' = "done" /\ outcome' = "failed"
    /\ UNCHANGED << ir, allowed_fields, given_ir >>
    /\ UNCHANGED << endpoint, PARSER_MODE, field_types, extracted, parser_used, ir_source,
                    calls, mongo_query, response >>
    /\ UNCHANGED << cache_vars, infer_vars, parse_vars >>

\* lines 520-548: what parse_with_llm makes of the answer
ExtractLLM ==
    /\ pc = "llm_extract"
    /\ ir' = ParseAnswer(extracted[1], allowed_fields, field_types).ir
    /\ outcome' = IF ParseAnswer(extracted[1], allowed_fields, field_types).raised
                  THEN "raised" ELSE "returned"
    /\ pc' = "done"
    /\ UNCHANGED << allowed_fields, given_ir >>
    /\ UNCHANGED << endpoint, PARSER_MODE, field_types, extracted, parser_used, ir_source,
                    calls, mongo_query, response >>
    /\ UNCHANGED << cache_vars, infer_vars, parse_vars >>

NextRetry ==
    \/ StartLLM
    \/ AttemptLLM
    \/ SleepLLM
    \/ ExtractLLM

SpecRetry == InitRetry /\ [][NextRetry]_vars

\* a pass of the loop, or the wait between two
LoopStep == StartLLM \/ AttemptLLM \/ SleepLLM

\* the thread that runs parse_with_llm keeps running: the model answers or
\* fails each call, and time.sleep returns
SpecRetryFair == SpecRetry /\ WF_vars(LoopStep)

\* the passes that failed with a text that has "429" in it
Failed429(n) ==
    /\ calls[n].error # << >>
    /\ \E i \in 1..(Len(calls[n].error[1]) - 2) :
          /\ calls[n].error[1][i] = "4"
          /\ calls[n].error[1][i + 1] = "2"
          /\ calls[n].error[1][i + 2] = "9"

FailedOtherwise(n) == calls[n].error # << >> /\ ~Failed429(n)

\* no result, and nothing left to do
EndedWithNone == pc = "done" /\ ir = << >> /\ extracted = << >>

RetryBounded ==
    /\ Len(calls) <= 3
    /\ \A n \in 2..Len(calls) : Failed429(n - 1) /\ n - 1 \in { 1, 2 }
    /\ \A n \in 1..Len(calls) :
          FailedOtherwise(n) \/ (n = 3 /\ Failed429(n)) =>
              n = Len(calls) /\ EndedWithNone

\* C26 (bounded retry of the model call): a call of parse_with_llm calls the
\* model at most 3 times; every call after the first follows a failure whose
\* text has "429" in it, of the first or the second attempt; a failure of
\* another kind, and a third 429, is the last pass and leaves the call ended
\* with no result; and the loop is left, for what is made of the answer or
\* for the end of the call
C26_BoundedRetry == [] RetryBounded /\ <> (pc \in { "llm_extract", "done" })

\* three rate limits in a row, and the call has ended with no result
C26_Witness ==
    /\ Len(calls) = 3
    /\ \A n \in 1..3 : Failed429(n)
    /\ calls[1].wait = 4 /\ calls[2].wait = 8
    /\ EndedWithNone

(***************************************************************************)
(* The aggregation of the IRs that run_nlp compiles                        *)
(***************************************************************************)

AggregationTypes == { "count", "avg", "sum", "max", "min" }

\* run_nlp is about to call compile_ir_to_mongo on an aggregate IR
AggregateAtCompile ==
    /\ endpoint = "run_nlp"
    /\ pc = "compile"
    /\ ir[1].operation = "aggregate"

StreamCompileError ==
    /\ endpoint = "run_nlp_stream"
    /\ ir_source = "llm"
    /\ ir # << >>
    /\ ir[1].operation = "aggregate"
    /\ ir[1].aggregation = << >>
    /\ response.status = "compile_error"
=============================================================================
